---- MODULE Spec2Model ----
(***************************************************************************)
(* Model of the edge-frontend broker (edge-frontend/app.py): one client    *)
(* session (receive loop, merge timer, dispatcher, request task) and the   *)
(* process-wide backend bridge.  Every `await` of the code is a point      *)
(* where another task may run; the code between two awaits is one action.  *)
(* A send_event whose caller reads no shared state afterwards is folded    *)
(* into the action that precedes it.                                       *)
(*                                                                         *)
(* Texts are sequences of tokens: the k-th admitted utterance is <<k>> and *)
(* " ".join concatenates.  Request ids "<session_id>-r<seq>" are their seq *)
(* number; 0 stands for "" / None.  The clock advances in steps of TickMs; *)
(* a timer task may run once its due time has come.                        *)
(***************************************************************************)
EXTENDS Integers, Sequences, FiniteSets, TLC

\* ---------------------------------------------------------------- bounds
MaxSeq   == 3      \* request ids that may be assigned
MaxUtter == 4      \* admitted utterances
MaxMsgs  == 2      \* messages the backend sends
MaxDrops == 1      \* connection failures of the bridge
MaxTicks == 3      \* clock ticks after the start
MaxInputs == 4     \* admitted utterances, backend messages and failures together
MaxAudio == 3      \* audio and flush messages the loop may receive
MaxSamples == 3    \* samples in one audio message, at most
MaxCalls == 4      \* send_event calls, where the sends are taken alone

\* ------------------------------------------------- configuration (app.py)
\* The values are the defaults of app.py, but for BACKEND_MAX_PENDING (8),
\* FINAL_MERGE_MAX_MS (2200) and BACKEND_REQ_TIMEOUT_S (30), which are set so
\* that a full queue, the max_window commit and a request timeout happen within
\* the bounds above.
SUBMIT_MIN_TEXT_CHARS  == 2
SUBMIT_MIN_INTERVAL_MS == 600
FINAL_MERGE_GAP_MS     == 500
FINAL_MERGE_MAX_MS     == 1200
INTERRUPT_MIN_CHARS    == 6
BACKEND_MAX_PENDING    == 1
BACKEND_REQ_TIMEOUT_S  == 1
SUBMIT_REQUIRE_SPEECH  == TRUE
FILTER_FILLER          == TRUE
INTERRUPT_PRE_TOKEN    == TRUE
INTERRUPT_POST_TOKEN_MODE == "conditional"

\* int(time.time() * 1000) at the start of the session and the clock's grain
StartMs == 3000
TickMs  == 600
StepMs  == 100     \* the grain where the receive loop and the timer are taken alone

Rids == 1..MaxSeq
Min(a, b) == IF a <= b THEN a ELSE b

VARIABLES
  now,                  \* wall clock, ms
  ws_closed,
  rl,                   \* the receive loop: its position and locals
  last_submit_ms,
  nutt,                 \* number of admitted utterances (their tokens)
  merge_texts, merge_started_ms, merge_last_ms, merge_version,
  merge_timer_task,     \* 0 (None) or the version captured by the timer task
  timers,               \* the sleeping timer tasks: [ver, due]
  request_seq,
  backend_queue,
  disp,                 \* the dispatcher task: [pc, cancel]
  active_backend_task, active_request_id, active_request_text,
  active_first_token_seen,
  task,                 \* the request tasks (run_backend_payload), per request
  bpc, connected, ws,   \* the bridge runner, _connected, _ws (0 or connection)
  pend, pendq,          \* _pending_streams: its keys and the queues
  ndrops,               \* connection failures so far
  nbmsg,                \* messages the backend has sent so far
  hist,                 \* bookkeeping: texts stolen back and not yet committed,
                        \* a commit was deferred, utterances appended so far
  out,                  \* the events sent by the last action, in order
  din, dout,            \* an interrupt decision taken alone: its inputs, its result
  snd,                  \* send_event taken alone: its callers, send_lock, the socket
  rs,                   \* request_stream taken alone, with the time of its waits
  au,                   \* the audio of the session: pending, history, segment,
                        \* in_segment, the is_final of the last VAD call, the loop's position
  stp,                  \* BackendBridge.stop(): _stop, and where the call is
  maxsize               \* backend_queue.maxsize

timeV   == <<now>>
\* the variables the receive loop's handlers leave alone, but for the audio
decL    == <<din, dout, snd, rs, stp, maxsize>>
decV    == <<decL, au>>
rlV     == <<rl, last_submit_ms, nutt>>
mergeV  == <<merge_texts, merge_started_ms, merge_last_ms, merge_version,
             merge_timer_task, timers, request_seq>>
dispV   == <<disp, active_backend_task, active_request_id, active_request_text>>
bridgeV == <<bpc, connected, ws, ndrops, nbmsg>>
pendV   == <<pend, pendq>>
vars == <<now, ws_closed, rl, last_submit_ms, nutt, merge_texts,
          merge_started_ms, merge_last_ms, merge_version, merge_timer_task,
          timers, request_seq, backend_queue, disp, active_backend_task,
          active_request_id, active_request_text, active_first_token_seen,
          task, bpc, connected, ws, pend, pendq, ndrops, nbmsg,
          hist, out, din, dout, snd, rs, au, stp, maxsize>>

\* ---------------------------------------------------------------- events
Terminal == {"completed", "failed", "timeout", "interrupted"}

NoE == [e |-> "", stage |-> "", rid |-> 0, text |-> <<>>, reply |-> <<>>,
        intr |-> FALSE, reason |-> "", count |-> 0]
State(stage, rid)   == [NoE EXCEPT !.e = "backend_state", !.stage = stage, !.rid = rid]
StateD(stage, rid, reason) == [State(stage, rid) EXCEPT !.reason = reason]
Queued(rid, text, reason, count) ==
  [State("queued", rid) EXCEPT !.text = text, !.reason = reason, !.count = count]
Warn(rid, reason)   == [NoE EXCEPT !.e = "warn", !.rid = rid, !.reason = reason]
Filtered(reason, t) == [NoE EXCEPT !.e = "filtered", !.reason = reason, !.text = t]
Stream(rid, delta)  == [NoE EXCEPT !.e = "backend_stream", !.rid = rid, !.reply = <<delta>>]
Result(rid, reply, intr) ==
  [NoE EXCEPT !.e = "backend_result", !.rid = rid, !.reply = reply, !.intr = intr]
Asr(t)              == [NoE EXCEPT !.e = "asr", !.text = t]
Status(m)           == [NoE EXCEPT !.e = "status", !.reason = m]

\* send_event: nothing is sent once ws_closed is set
Visible(evs) == IF ws_closed THEN <<>> ELSE evs

Count(evs, P(_)) == Cardinality({i \in DOMAIN evs : P(evs[i])})
IsStage(x, s) == x.e = "backend_state" /\ x.stage = s
IsTerm(x)     == x.e = "backend_state" /\ x.stage \in Terminal
IsResult(x)   == x.e = "backend_result"
IsReply(x)    == x.e \in {"backend_result", "backend_stream"}
IsThinking(x) == IsStage(x, "thinking")
IsInterrupted(x) == IsStage(x, "interrupted")

\* what the client has been sent for a request: kept with its task
NoEv == [queued |-> FALSE, thinking |-> FALSE, terms |-> 0, results |-> 0,
         replied |-> FALSE, interrupted |-> FALSE]

Account(h, evs) ==
  [queued   |-> h.queued,
   thinking |-> h.thinking \/ Count(evs, IsThinking) > 0,
   terms    |-> h.terms + Count(evs, IsTerm),
   results  |-> h.results + Count(evs, IsResult),
   replied  |-> h.replied \/ Count(evs, IsReply) > 0,
   interrupted |-> h.interrupted \/ Count(evs, IsInterrupted) > 0]

Send(evs) == out' = Visible(evs)

\* ------------------------------------------------------------ merge buffer
RECURSIVE Join(_)
\* " ".join(s.strip() for s in merge_texts ...): the texts one after another
Join(texts) == IF texts = <<>> THEN <<>> ELSE Head(texts) \o Join(Tail(texts))

MergeRec == [texts |-> merge_texts, started |-> merge_started_ms,
             last |-> merge_last_ms, version |-> merge_version,
             timer |-> merge_timer_task, timers |-> timers]

SetMerge(M) == /\ merge_texts' = M.texts
               /\ merge_started_ms' = M.started
               /\ merge_last_ms' = M.last
               /\ merge_version' = M.version
               /\ merge_timer_task' = M.timer
               /\ timers' = M.timers

\* (a cancel that forgets the timer task and lets it sleep on)
cancel_merge_timer_forgetting(M) == [M EXCEPT !.timer = 0]

\* a cancelled timer task is asleep: it returns at its CancelledError
cancel_merge_timer(M) ==
  [M EXCEPT !.timers = {t \in @ : t.ver # M.timer}, !.timer = 0]

schedule_merge_timer(M) ==
  IF M.texts = <<>> THEN cancel_merge_timer(M)
  ELSE LET C == cancel_merge_timer(M)
           v == C.version + 1
           due == Min(C.last + FINAL_MERGE_GAP_MS, C.started + FINAL_MERGE_MAX_MS)
       IN [C EXCEPT !.version = v, !.timer = v,
                    !.timers = @ \cup {[ver |-> v, due |-> due]}]

\* backend_queue.full(), for the queue holding q
QueueFull(q) == Len(q) >= maxsize

\* (a commit_merged that gives the id of a deferred commit to the next commit)
commit_merged_reusing(M, q, seq, reason, t, sends) ==
  IF M.texts = <<>>
  THEN [M |-> M, q |-> q, seq |-> seq, evs |-> <<>>, ok |-> FALSE, busy |-> FALSE]
  ELSE LET text  == Join(M.texts)
           count == Len(M.texts)
           C     == cancel_merge_timer([M EXCEPT !.texts = <<>>, !.started = 0,
                                                 !.last = 0, !.version = @ + 1])
           id    == seq + 1
           req   == [id |-> id, text |-> text, reason |-> reason, count |-> count,
                     qev |-> sends >= 1 /\ ~ws_closed]   \* `queued` was sent
       IN IF QueueFull(q)
          THEN LET R == [C EXCEPT !.texts = <<text>>, !.started = t, !.last = t]
                   evs == <<Filtered("backend_queue_busy_buffering", text),
                            StateD("queue_busy", id, "backend_queue_busy_buffering")>>
               IN [M |-> IF sends >= 2 THEN schedule_merge_timer(R) ELSE R,
                   q |-> q, seq |-> seq, evs |-> SubSeq(evs, 1, Min(sends, 2)),
                   ok |-> FALSE, busy |-> TRUE]
          ELSE [M |-> C, q |-> Append(q, req), seq |-> id,
                evs |-> SubSeq(<<Queued(id, text, reason, count)>>, 1, Min(sends, 1)),
                ok |-> TRUE, busy |-> FALSE]

\* (a commit_merged that queues the text and leaves it in the window as well)
commit_merged_keeping(M, q, seq, reason, t, sends) ==
  IF M.texts = <<>>
  THEN [M |-> M, q |-> q, seq |-> seq, evs |-> <<>>, ok |-> FALSE, busy |-> FALSE]
  ELSE LET text  == Join(M.texts)
           count == Len(M.texts)
           C     == cancel_merge_timer([M EXCEPT !.texts = <<>>, !.started = 0,
                                                 !.last = 0, !.version = @ + 1])
           id    == seq + 1
           req   == [id |-> id, text |-> text, reason |-> reason, count |-> count,
                     qev |-> sends >= 1 /\ ~ws_closed]   \* `queued` was sent
       IN IF QueueFull(q)
          THEN LET R == [C EXCEPT !.texts = <<text>>, !.started = t, !.last = t]
                   evs == <<Filtered("backend_queue_busy_buffering", text),
                            StateD("queue_busy", id, "backend_queue_busy_buffering")>>
               IN [M |-> IF sends >= 2 THEN schedule_merge_timer(R) ELSE R,
                   q |-> q, seq |-> id, evs |-> SubSeq(evs, 1, Min(sends, 2)),
                   ok |-> FALSE, busy |-> TRUE]
          ELSE [M |-> [C EXCEPT !.texts = M.texts], q |-> Append(q, req), seq |-> id,
                evs |-> SubSeq(<<Queued(id, text, reason, count)>>, 1, Min(sends, 1)),
                ok |-> TRUE, busy |-> FALSE]

\* commit_merged, called with the window M, the queue q and request_seq at time
\* t.  `sends` is the number of its send_event calls that complete: 2, all of
\* them, unless the calling task is cancelled while it sends.
commit_merged(M, q, seq, reason, t, sends) ==
  IF M.texts = <<>>
  THEN [M |-> M, q |-> q, seq |-> seq, evs |-> <<>>, ok |-> FALSE, busy |-> FALSE]
  ELSE LET text  == Join(M.texts)
           count == Len(M.texts)
           C     == cancel_merge_timer([M EXCEPT !.texts = <<>>, !.started = 0,
                                                 !.last = 0, !.version = @ + 1])
           id    == seq + 1
           req   == [id |-> id, text |-> text, reason |-> reason, count |-> count,
                     qev |-> sends >= 1 /\ ~ws_closed]   \* `queued` was sent
       IN IF QueueFull(q)
          THEN LET R == [C EXCEPT !.texts = <<text>>, !.started = t, !.last = t]
                   evs == <<Filtered("backend_queue_busy_buffering", text),
                            StateD("queue_busy", id, "backend_queue_busy_buffering")>>
               IN [M |-> IF sends >= 2 THEN schedule_merge_timer(R) ELSE R,
                   q |-> q, seq |-> id, evs |-> SubSeq(evs, 1, Min(sends, 2)),
                   ok |-> FALSE, busy |-> TRUE]
          ELSE [M |-> C, q |-> Append(q, req), seq |-> id,
                evs |-> SubSeq(<<Queued(id, text, reason, count)>>, 1, Min(sends, 1)),
                ok |-> TRUE, busy |-> FALSE]

\* ------------------------------------------------- admission, interruption
Classes == {"normal", "keep_short", "drop_filler"}

\* (an admission that looks at the audio event before the length)
should_submit_speech_first(u, now_ms, prev_submit_ms) ==
  IF FILTER_FILLER /\ u.cls = "drop_filler" THEN <<FALSE, "filler_text">>
  ELSE IF SUBMIT_REQUIRE_SPEECH /\ ~u.speech THEN <<FALSE, "not_speech_event">>
  ELSE IF u.cls # "keep_short" /\ u.len < SUBMIT_MIN_TEXT_CHARS
       THEN <<FALSE, "text_too_short">>
  ELSE IF now_ms - prev_submit_ms < SUBMIT_MIN_INTERVAL_MS
       THEN <<FALSE, "submit_interval_limited">>
  ELSE <<TRUE, "">>

\* (an admission with no rate limit)
should_submit_unlimited(u, now_ms, prev_submit_ms) ==
  IF FILTER_FILLER /\ u.cls = "drop_filler" THEN <<FALSE, "filler_text">>
  ELSE IF u.cls # "keep_short" /\ u.len < SUBMIT_MIN_TEXT_CHARS
       THEN <<FALSE, "text_too_short">>
  ELSE IF SUBMIT_REQUIRE_SPEECH /\ ~u.speech THEN <<FALSE, "not_speech_event">>
  ELSE <<TRUE, "">>

\* should_submit: (do_submit, reason); u = [cls, len, q, speech]
should_submit(u, now_ms, prev_submit_ms) ==
  IF FILTER_FILLER /\ u.cls = "drop_filler" THEN <<FALSE, "filler_text">>
  ELSE IF u.cls # "keep_short" /\ u.len < SUBMIT_MIN_TEXT_CHARS
       THEN <<FALSE, "text_too_short">>
  ELSE IF SUBMIT_REQUIRE_SPEECH /\ ~u.speech THEN <<FALSE, "not_speech_event">>
  ELSE IF now_ms - prev_submit_ms < SUBMIT_MIN_INTERVAL_MS
       THEN <<FALSE, "submit_interval_limited">>
  ELSE <<TRUE, "">>

\* (a decision that ignores the question marks)
should_interrupt_post_token_by_length(len, q, cls, mode) ==
  IF cls \in {"drop_filler", "keep_short"} THEN FALSE
  ELSE IF mode = "always" THEN TRUE
  ELSE IF mode \in {"off", "none", "never", "0"} THEN FALSE
  ELSE len >= INTERRUPT_MIN_CHARS

should_interrupt_post_token(len, q, cls, mode) ==
  IF cls \in {"drop_filler", "keep_short"} THEN FALSE
  ELSE IF mode = "always" THEN TRUE
  ELSE IF mode \in {"off", "none", "never", "0"} THEN FALSE
  ELSE IF len >= INTERRUPT_MIN_CHARS THEN TRUE
  ELSE q

\* the branch ingest_final_candidate takes while a request is inflight
InterruptDecision(cls, seen, len, q, mode, pre) ==
  IF cls = "normal" /\ ~seen /\ pre THEN "pre_token"
  ELSE IF seen /\ should_interrupt_post_token(len, q, cls, mode) THEN "post_token"
  ELSE "none"

\* ------------------------------------------------------------------ tasks
NoMsg == [type |-> "none", final |-> FALSE, delta |-> "", err |-> ""]
\* A request task.  sent: the connection the payload was sent on (0: not sent);
\* late: request_stream was called between the loss of a connection and the
\* runner's `finally`; ev: what the client has been sent for the request;
\* icancel: an interruption has cancelled the task; stolen: an interruption
\* has put the request's text back in the merge window.
\* The record is kept until the dispatcher clears the inflight state.
NoTask == [pc |-> "none", res |-> "", cancel |-> FALSE, parts |-> <<>>,
           announced |-> FALSE, msg |-> NoMsg, sent |-> 0, late |-> FALSE,
           ev |-> NoEv, icancel |-> FALSE, stolen |-> FALSE]
Finish(rec, res) == [NoTask EXCEPT !.pc = "done", !.res = res, !.ev = rec.ev,
                                   !.icancel = rec.icancel, !.stolen = rec.stolen]
Emit(rec, evs) == [rec EXCEPT !.ev = Account(@, Visible(evs))]

BackendMsgs ==
       [type : {"llm_stream"}, final : BOOLEAN, delta : {"", " ", "d"}, err : {""}]
  \cup [type : {"llm_response"}, final : BOOLEAN, delta : {"d"}, err : {""}]
  \cup [type : {"llm_error"}, final : BOOLEAN, delta : {""}, err : {"backend"}]
Synthetic(err) == [type |-> "llm_error", final |-> TRUE, delta |-> "", err |-> err]

TaskLive(r) == task[r].pc \notin {"none", "done"}
\* task.done()
TaskDone(r) == task[r].pc = "done"
LiveTasks == {r \in Rids : TaskLive(r)}

\* the positions at a send_event: in the loop body, and in an except clause.
\* A warning and the state that follows it are sent in one step, and so are
\* `streaming` and the first backend_stream.
BodySends    == {"eWarn", "sStreaming", "sStream", "rResult", "rCompleted"}
HandlerSends == {"tWarn", "xWarn", "cResult", "cInterrupted"}

\* "".join(reply_parts).strip() is not empty
NonBlank(parts) == \E i \in DOMAIN parts : parts[i] # " "

\* the inputs of an interrupt decision; NoDecision: none is being taken
Modes == {"always", "conditional", "off", "none", "never", "0", "other"}
NoDecision == [cls |-> "", seen |-> FALSE, len |-> 0, q |-> FALSE, mode |-> "",
               pre |-> FALSE]

InitSession ==
  /\ now = StartMs
  /\ ws_closed = FALSE
  /\ rl = [pc |-> "idle", tok |-> 0, now_ms |-> 0, reason |-> "", back |-> FALSE,
           rid |-> 0]
  /\ last_submit_ms = 0
  /\ nutt = 0
  /\ merge_texts = <<>> /\ merge_started_ms = 0 /\ merge_last_ms = 0
  /\ merge_version = 0 /\ merge_timer_task = 0 /\ timers = {}
  /\ request_seq = 0
  /\ backend_queue = <<>>
  /\ disp = [pc |-> "get", cancel |-> FALSE]
  /\ active_backend_task = 0 /\ active_request_id = 0
  /\ active_request_text = <<>> /\ active_first_token_seen = FALSE
  /\ task = [r \in Rids |-> NoTask]
  /\ \/ bpc = "up" /\ connected = TRUE /\ ws = 1    \* connected at startup
     \/ bpc = "down" /\ connected = FALSE /\ ws = 0  \* or not yet
  /\ pend = {} /\ pendq = [r \in Rids |-> <<>>]
  /\ ndrops = 0 /\ nbmsg = 0
  /\ hist = [steals |-> <<>>, deferred |-> FALSE, appended |-> 0, orphans |-> {}]
  /\ out = <<>>

\* the tasks of a session that call send_event
Callers == {"loop", "timer", "task"}
\* send_lock = asyncio.Lock(), nobody sending.  pc: a caller is outside of
\* send_event (idle), in send_lock.acquire() with its future pending (wait) or
\* set (woken), or in websocket.send_json (write); broken: send_json raises
\* (the client is gone and the loop has not seen it yet); call: the number of the
\* call a caller is in; waiters: Lock._waiters; wire: what the socket was given
NoSend == [pc |-> [c \in Callers |-> "idle"], call |-> [c \in Callers |-> 0],
           locked |-> FALSE, waiters |-> <<>>, ncalls |-> 0, wire |-> <<>>,
           broken |-> FALSE]

\* pending, history and segment (their sizes, in samples) empty, in_segment
\* false; pc: the loop is in websocket.receive() (idle), in the chunks of an
\* audio message (audio) or of a flush (flush), at the segment check of
\* flush_all (seg), or before its commit (tail); naud: messages received
NoAudio == [pc |-> "idle", pending |-> 0, history |-> 0, segment |-> 0,
            in_segment |-> FALSE, is_final |-> FALSE, naud |-> 0]

\* stop() not called: _stop false.  pc: idle, close (stop is in _ws.close()),
\* cancel (before _runner.cancel()), await (in `await self._runner`), done
\* (stop has returned), raised (it has raised); run: the runner task is
\* live, has ended (its loop saw _stop) or has ended cancelled
NoStop == [stop |-> FALSE, pc |-> "idle", run |-> "live"]

\* request_stream not yet called.  pc: idle, get (in wait_for(queue.get())),
\* final (it has yielded a final message), timeout (wait_for has raised);
\* t0: the time of the call, tw: the time the current wait_for began,
\* n: the messages yielded
NoStream == [pc |-> "idle", t0 |-> 0, tw |-> 0, n |-> 0]

Init == /\ InitSession /\ din = NoDecision /\ dout = "" /\ snd = NoSend /\ rs = NoStream
        /\ au = NoAudio /\ stp = NoStop /\ maxsize = BACKEND_MAX_PENDING
\* the session with the bridge connected at startup
InitUp == Init /\ bpc = "up"

Quiet == out' = <<>>

\* the inputs taken so far, and whether one more may be taken
Inputs == nutt + nbmsg + ndrops
MoreInput == Inputs < MaxInputs

\* ----------------------------------------------------------- the bridge
\* BackendBridge._run: websockets.connect succeeds
BConnect ==
  /\ bpc = "down"
  /\ bpc' = "up" /\ ws' = ndrops + 1 /\ connected' = TRUE
  /\ Quiet
  /\ UNCHANGED <<timeV, decV, ws_closed, rlV, mergeV, backend_queue, dispV,
                 active_first_token_seen, task, pendV, ndrops, nbmsg, hist>>

\* websockets.connect raises: the runner sleeps BACKEND_RECONNECT_S in `except`
BConnectFail ==
  /\ bpc = "down" /\ ndrops < MaxDrops /\ MoreInput
  /\ bpc' = "failed" /\ ndrops' = ndrops + 1
  /\ Quiet
  /\ UNCHANGED <<timeV, decV, ws_closed, rlV, mergeV, backend_queue, dispV,
                 active_first_token_seen, task, pendV, connected, ws, nbmsg, hist>>

\* ws.recv() raises: the connection is lost; _connected and _ws stay as they
\* are while the runner sleeps in `except`
BDrop ==
  /\ bpc = "up" /\ ndrops < MaxDrops /\ MoreInput
  /\ bpc' = "lost" /\ ndrops' = ndrops + 1
  /\ Quiet
  /\ UNCHANGED <<timeV, decV, ws_closed, rlV, mergeV, backend_queue, dispV,
                 active_first_token_seen, task, pendV, connected, ws, nbmsg, hist>>

\* (a `finally` that clears _connected and _ws and leaves the queues alone)
BFinallyClearOnly ==
  /\ bpc \in {"lost", "failed"}
  /\ bpc' = "down" /\ connected' = FALSE /\ ws' = 0
  /\ Quiet
  /\ UNCHANGED <<timeV, decV, ws_closed, rlV, mergeV, backend_queue, dispV,
                 active_first_token_seen, task, pendV, ndrops, nbmsg, hist>>

\* the runner's `finally`: clear, and a synthetic terminal for every pending queue
BFinally ==
  /\ bpc \in {"lost", "failed"}
  /\ bpc' = "down" /\ connected' = FALSE /\ ws' = 0
  /\ pendq' = [r \in Rids |-> IF r \in pend
                              THEN Append(pendq[r], Synthetic("disconnected"))
                              ELSE pendq[r]]
  /\ Quiet
  /\ UNCHANGED <<timeV, decV, ws_closed, rlV, mergeV, backend_queue, dispV,
                 active_first_token_seen, task, pend, ndrops, nbmsg, hist>>

\* ------------------------------------------------------ the request task
\* run_backend_payload(payload) for request r, with request_stream inlined.
TaskOther == <<timeV, decV, ws_closed, rlV, mergeV, backend_queue, dispV, bridgeV, hist>>

Unregister(r) == pend' = pend \ {r} /\ pendq' = [pendq EXCEPT ![r] = <<>>]

\* the task starts, `thinking` is sent, request_stream registers its queue and
\* waits for _connected ("thinking": created, or waiting to send `thinking`)
TThinking(r) ==
  /\ task[r].pc = "thinking" /\ ~task[r].cancel
  /\ Send(<<State("thinking", r)>>)
  /\ pend' = pend \cup {r}
  /\ pendq' = [pendq EXCEPT ![r] = <<>>]
  /\ task' = [task EXCEPT ![r] = Emit([@ EXCEPT !.pc = "conn", !.late = (bpc = "lost")],
                                       <<State("thinking", r)>>)]
  /\ UNCHANGED <<TaskOther, active_first_token_seen>>

\* _connected is set: the payload is sent on _ws, which fails on a lost connection
TConn(r) ==
  /\ task[r].pc = "conn" /\ ~task[r].cancel /\ connected
  /\ IF bpc = "up"
     THEN /\ task' = [task EXCEPT ![r].pc = "recv", ![r].sent = ws]
          /\ UNCHANGED pendV
     ELSE /\ Unregister(r)
          /\ task' = [task EXCEPT ![r].pc = "xWarn"]
  /\ Quiet
  /\ UNCHANGED <<TaskOther, active_first_token_seen>>

\* asyncio.wait_for runs out, on _connected.wait() or on queue.get()
TTimeout(r) ==
  /\ ~task[r].cancel
  /\ \/ task[r].pc = "conn" /\ ~connected
     \/ task[r].pc = "recv" /\ pendq[r] = <<>>   \* the backend is silent
  /\ Unregister(r)
  /\ task' = [task EXCEPT ![r].pc = "tWarn"]
  /\ Quiet
  /\ UNCHANGED <<TaskOther, active_first_token_seen>>

\* The messages queue.get() can return for request r: the head of its queue, or,
\* the queue being empty, a message the backend sends now on the connection the
\* request was sent on.  (The runner's `await queue.put(msg)` for a backend
\* message is taken together with the queue.get() that returns it: a message
\* that waits in the queue is a message that arrives later.)
Arrivals(r) ==
  IF pendq[r] # <<>> THEN {Head(pendq[r])}
  ELSE IF bpc = "up" /\ task[r].sent = ws /\ nbmsg < MaxMsgs /\ MoreInput
       THEN BackendMsgs
  ELSE {}

\* the task record after the loop body for a message: request_stream stops
\* behind a message with final set (and unregisters), or waits for the next
AfterBody(rec, final) ==
  IF final THEN Finish(rec, "ok") ELSE [rec EXCEPT !.pc = "recv", !.msg = NoMsg]

\* queue.get() returns message m; the loop body runs up to its first send
TRecv(r, m) ==
  /\ task[r].pc = "recv" /\ ~task[r].cancel /\ m \in Arrivals(r)
  /\ LET q == IF pendq[r] # <<>> THEN Tail(pendq[r]) ELSE <<>>
         rec == [task[r] EXCEPT !.msg = m]
     IN
     /\ Quiet
     /\ nbmsg' = IF pendq[r] # <<>> THEN nbmsg ELSE nbmsg + 1
     /\ IF m.type = "llm_error"
        THEN /\ task' = [task EXCEPT ![r] = [rec EXCEPT !.pc = "eWarn"]]
             /\ pendq' = [pendq EXCEPT ![r] = q]
             /\ UNCHANGED <<pend, active_first_token_seen>>
        ELSE IF m.type = "llm_response"
        THEN /\ task' = [task EXCEPT ![r] = [rec EXCEPT !.pc = "rResult"]]
             /\ pendq' = [pendq EXCEPT ![r] = q]
             /\ UNCHANGED <<pend, active_first_token_seen>>
        ELSE IF m.delta # ""
        THEN /\ task' = [task EXCEPT ![r] = [rec EXCEPT
                   !.pc = IF rec.announced THEN "sStream" ELSE "sStreaming",
                   !.announced = TRUE,
                   !.parts = Append(@, m.delta)]]
             /\ active_first_token_seen' = TRUE
             /\ pendq' = [pendq EXCEPT ![r] = q]
             /\ UNCHANGED pend
        ELSE \* an empty delta: `continue`
             /\ task' = [task EXCEPT ![r] = AfterBody(rec, m.final)]
             /\ IF m.final THEN Unregister(r)
                ELSE pendq' = [pendq EXCEPT ![r] = q] /\ pend' = pend
             /\ UNCHANGED active_first_token_seen
  /\ UNCHANGED <<timeV, decV, ws_closed, rlV, mergeV, backend_queue, dispV, bpc, connected,
                 ws, ndrops, hist>>

\* what the task at a send_event sends, and the task record when the send has
\* completed and the task has run on to its next await
Sends(r) ==
  LET rec == task[r]
      m == rec.msg
  IN CASE rec.pc = "eWarn" ->
            [evs |-> <<Warn(r, "backend error"), StateD("failed", r, m.err)>>,
             rec |-> Finish(rec, "ok")]                        \* break
       [] rec.pc = "sStreaming" ->
            [evs |-> <<State("streaming", r), Stream(r, m.delta)>>,
             rec |-> AfterBody(rec, m.final)]
       [] rec.pc = "sStream" ->
            [evs |-> <<Stream(r, m.delta)>>, rec |-> AfterBody(rec, m.final)]
       [] rec.pc = "rResult" ->                                \* "final": final or True
            [evs |-> <<Result(r, <<"reply">>, FALSE)>>,
             rec |-> IF m.final THEN [rec EXCEPT !.pc = "rCompleted"]
                     ELSE AfterBody(rec, FALSE)]
       [] rec.pc = "rCompleted" ->
            [evs |-> <<State("completed", r)>>, rec |-> Finish(rec, "ok")]  \* break
       [] rec.pc = "tWarn" ->
            [evs |-> <<Warn(r, "backend request timeout"), State("timeout", r)>>,
             rec |-> Finish(rec, "ok")]
       [] rec.pc = "xWarn" ->
            [evs |-> <<Warn(r, "backend request failed"),
                       StateD("failed", r, "exception")>>,
             rec |-> Finish(rec, "ok")]
       [] rec.pc = "cResult" ->
            [evs |-> <<Result(r, rec.parts, TRUE)>>,
             rec |-> [rec EXCEPT !.pc = "cInterrupted"]]
       [] rec.pc = "cInterrupted" ->
            [evs |-> <<State("interrupted", r)>>, rec |-> Finish(rec, "cancelled")]

\* one send_event of the task completes and it runs on to its next await
TSend(r) ==
  /\ task[r].pc \in BodySends \cup HandlerSends /\ ~task[r].cancel
  /\ LET s == Sends(r) IN
     /\ Send(s.evs)
     /\ task' = [task EXCEPT ![r] = Emit(s.rec, s.evs)]
     /\ IF task[r].pc \in {"sStreaming", "sStream"} /\ task[r].msg.final
        THEN Unregister(r)       \* request_stream ends behind the final message
        ELSE UNCHANGED pendV
  /\ UNCHANGED <<TaskOther, active_first_token_seen>>

\* where a CancelledError thrown into the task at position pc is handled:
\* "handler" is `except asyncio.CancelledError` of run_backend_payload, which
\* `await emit_backend_state("thinking")` and the except clauses are outside of
CancelLands(pc) ==
  IF pc \in {"conn", "recv"} \cup BodySends THEN "handler" ELSE "out"

\* the task resumes after task.cancel(): CancelledError at its current await
TCancelled(r) ==
  /\ TaskLive(r) /\ task[r].cancel
  /\ IF CancelLands(task[r].pc) = "handler"
     THEN /\ task' = [task EXCEPT
                ![r].cancel = FALSE,
                ![r].pc = IF active_first_token_seen /\ NonBlank(task[r].parts)
                          THEN "cResult" ELSE "cInterrupted"]
          /\ IF task[r].pc \in {"conn", "recv"}    \* request_stream's finally
             THEN Unregister(r)
             ELSE UNCHANGED pendV
     ELSE /\ task' = [task EXCEPT ![r] = Finish(@, "cancelled")]
          /\ UNCHANGED pendV
  /\ Quiet
  /\ UNCHANGED <<TaskOther, active_first_token_seen>>

\* the async generator of a finished task is finalized: request_stream's finally
AgenFinalize(r) ==
  /\ ~TaskLive(r) /\ r \in pend
  /\ Unregister(r)
  /\ Quiet
  /\ UNCHANGED <<TaskOther, active_first_token_seen, task>>

\* ---------------------------------------------------------- the dispatcher
\* (a dispatcher that goes on at task.cancel(), before the task has finished)
AwaitReturnsAtCancel(r) == TaskDone(r) \/ task[r].cancel

\* the dispatcher goes on once the task it awaits is done
AwaitReturns(r) == TaskDone(r)

\* (a dispatcher that takes the request queued last)
DispatchNewest(q) ==
  LET p == q[Len(q)] IN
  /\ backend_queue' = SubSeq(q, 1, Len(q) - 1)
  /\ active_request_id' = p.id
  /\ active_request_text' = p.text
  /\ active_first_token_seen' = FALSE
  /\ active_backend_task' = p.id
  /\ task' = [r \in Rids |->
                IF r = p.id
                THEN [NoTask EXCEPT !.pc = "thinking", !.ev.queued = p.qev]
                ELSE IF TaskDone(r) THEN NoTask ELSE task[r]]
  /\ disp' = [disp EXCEPT !.pc = "await"]

\* backend_queue.get() returns the head of q; the lines up to
\* `await active_backend_task`
Dispatch(q) ==
  LET p == Head(q) IN
  /\ backend_queue' = Tail(q)
  /\ active_request_id' = p.id
  /\ active_request_text' = p.text
  /\ active_first_token_seen' = FALSE
  /\ active_backend_task' = p.id
  /\ task' = [r \in Rids |->
                IF r = p.id
                THEN [NoTask EXCEPT !.pc = "thinking", !.ev.queued = p.qev]
                ELSE IF TaskDone(r) THEN NoTask ELSE task[r]]
  /\ disp' = [disp EXCEPT !.pc = "await"]

ClearActive ==
  /\ task' = [r \in Rids |-> IF TaskDone(r) THEN NoTask ELSE task[r]]
  /\ active_backend_task' = 0
  /\ active_request_id' = 0
  /\ active_request_text' = <<>>
  /\ active_first_token_seen' = FALSE

\* The queue a commit leaves is q.  put_nowait wakes a dispatcher that waits in
\* backend_queue.get(): its step runs as soon as the committing task suspends,
\* before any later message, timer or tick, and is taken with the commit.
DGet(q) ==
  IF q # <<>> /\ disp.pc = "get" /\ ~disp.cancel
  THEN Dispatch(q)
  ELSE /\ backend_queue' = q
       /\ UNCHANGED <<dispV, active_first_token_seen, task>>

\* (a dispatcher without `except Exception`: it ends with the task's exception)
DWakeWithoutExcept ==
  /\ disp.pc = "await" /\ AwaitReturns(active_backend_task)
  /\ IF disp.cancel \/ task[active_backend_task].res = "raised"
     THEN ClearActive /\ disp' = [disp EXCEPT !.pc = "done"]
            /\ UNCHANGED backend_queue
     ELSE IF backend_queue # <<>>
     THEN Dispatch(backend_queue)
     ELSE ClearActive /\ disp' = [disp EXCEPT !.pc = "get"]
            /\ UNCHANGED backend_queue
  /\ Quiet
  /\ UNCHANGED <<timeV, decV, ws_closed, rlV, mergeV, bridgeV, pendV, hist>>

\* `await active_backend_task` returns or raises; the inner finally; and, the
\* queue not being empty, the next request is taken without suspending
DWake ==
  /\ disp.pc = "await" /\ AwaitReturns(active_backend_task)
  /\ IF disp.cancel
     THEN ClearActive /\ disp' = [disp EXCEPT !.pc = "done"]
            /\ UNCHANGED backend_queue
     ELSE IF backend_queue # <<>>
     THEN Dispatch(backend_queue)
     ELSE ClearActive /\ disp' = [disp EXCEPT !.pc = "get"]
            /\ UNCHANGED backend_queue
  /\ Quiet
  /\ UNCHANGED <<timeV, decV, ws_closed, rlV, mergeV, bridgeV, pendV, hist>>

\* the dispatcher is cancelled while it waits in backend_queue.get()
DCancelled ==
  /\ disp.pc = "get" /\ disp.cancel
  /\ disp' = [disp EXCEPT !.pc = "done"]
  /\ Quiet
  /\ UNCHANGED <<timeV, decV, ws_closed, rlV, mergeV, backend_queue, bridgeV, pendV, hist,
                 active_backend_task, active_request_id, active_request_text,
                 active_first_token_seen, task>>

\* -------------------------------------------------------- the merge timer
AfterCommit(h, c) ==
  IF c.ok THEN [h EXCEPT !.steals = <<>>, !.deferred = FALSE]
  ELSE IF c.busy THEN [h EXCEPT !.deferred = TRUE]
  ELSE h

\* the number of send_event calls of commit_merged that complete when the
\* timer task calls it: its cancel_merge_timer() has cancelled the calling task
\* itself, and a send that suspends raises CancelledError
TimerSends == 0..2

\* _timer: the sleep is over; the version check; commit_merged("gap_or_window")
TimerFire(t, sends) ==
  /\ t \in timers /\ now >= t.due
  /\ LET M0 == [MergeRec EXCEPT !.timers = @ \ {t}] IN
     IF t.ver # merge_version
     THEN /\ SetMerge(M0)
          /\ Quiet
          /\ UNCHANGED <<request_seq, backend_queue, hist, dispV,
                         active_first_token_seen, task>>
     ELSE /\ request_seq < MaxSeq
          /\ LET c == commit_merged(M0, backend_queue, request_seq,
                                    "gap_or_window", now, sends) IN
             /\ SetMerge(c.M)
             /\ DGet(c.q)
             /\ request_seq' = c.seq
             /\ hist' = AfterCommit(hist, c)
             /\ Send(c.evs)
  /\ UNCHANGED <<timeV, decV, ws_closed, rlV, bridgeV, pendV>>

\* ------------------------------------------------------- the receive loop
Utt(cls, len, q, speech) == [cls |-> cls, len |-> len, q |-> q, speech |-> speech]
\* ASR results: one for each outcome of the interrupt decision, and a filler,
\* which should_submit rejects (as it does any of them that comes too early)
Utterances ==
  { Utt("normal", 6, FALSE, TRUE), Utt("normal", 2, FALSE, TRUE),
    Utt("normal", 2, TRUE, TRUE), Utt("keep_short", 1, FALSE, TRUE),
    Utt("drop_filler", 1, FALSE, TRUE) }

Idle == [pc |-> "idle", tok |-> 0, now_ms |-> 0, reason |-> "", back |-> FALSE,
         rid |-> 0]

\* (an ingest that stamps the window and adds no text to it)
IngestTailNoAppend(M, q, seq, tok, now_ms, t) ==
  LET A == [M EXCEPT !.started = IF M.texts = <<>> THEN now_ms ELSE @,
                     !.last = now_ms]
  IN IF now_ms - A.started >= FINAL_MERGE_MAX_MS
     THEN commit_merged(A, q, seq, "max_window", t, 2)
     ELSE [M |-> schedule_merge_timer(A), q |-> q, seq |-> seq, evs |-> <<>>,
           ok |-> FALSE, busy |-> FALSE]

\* ingest_final_candidate from `if not merge_texts` on: append, then commit or
\* (re)schedule.  now_ms is the time finalize_segment read, t the time now.
IngestTail(M, q, seq, tok, now_ms, t) ==
  LET A == [M EXCEPT !.started = IF M.texts = <<>> THEN now_ms ELSE @,
                     !.last = now_ms,
                     !.texts = Append(@, <<tok>>)]
  IN IF now_ms - A.started >= FINAL_MERGE_MAX_MS
     THEN commit_merged(A, q, seq, "max_window", t, 2)
     ELSE [M |-> schedule_merge_timer(A), q |-> q, seq |-> seq, evs |-> <<>>,
           ok |-> FALSE, busy |-> FALSE]

\* (a teardown without cancel_merge_timer)
TeardownKeepsTimer(M) ==
  /\ ws_closed' = TRUE
  /\ SetMerge(M)
  /\ disp' = IF disp.pc = "done" THEN disp ELSE [disp EXCEPT !.cancel = TRUE]
  /\ task' = IF disp.pc = "await" /\ active_backend_task # 0
                 /\ TaskLive(active_backend_task)
             THEN [task EXCEPT ![active_backend_task].cancel = TRUE]
             ELSE task
  /\ rl' = [Idle EXCEPT !.pc = "closing"]

\* the teardown of ws_client (`finally`): ws_closed, cancel_merge_timer, and the
\* dispatcher cancelled, which cancels the task it awaits
Teardown(M) ==
  /\ ws_closed' = TRUE
  /\ SetMerge(cancel_merge_timer(M))
  /\ disp' = IF disp.pc = "done" THEN disp ELSE [disp EXCEPT !.cancel = TRUE]
  /\ task' = IF disp.pc = "await" /\ active_backend_task # 0
                 /\ TaskLive(active_backend_task)
             THEN [task EXCEPT ![active_backend_task].cancel = TRUE]
             ELSE task
  /\ rl' = [Idle EXCEPT !.pc = "closing"]

\* a segment is finalized with ASR result u: emit_asr, should_submit, and
\* ingest_final_candidate up to its first await that is followed by more code
finalize_segment(u) ==
  /\ rl.pc = "idle"
  /\ LET sub == should_submit(u, now, last_submit_ms)
         tok == nutt + 1
         abt == active_backend_task
         d   == InterruptDecision(u.cls, active_first_token_seen, u.len, u.q,
                                  INTERRUPT_POST_TOKEN_MODE, INTERRUPT_PRE_TOKEN)
     IN
     IF ~sub[1]
     THEN /\ Send(<<Asr(<<0>>), Filtered(sub[2], <<0>>)>>)
          /\ UNCHANGED <<rlV, mergeV, backend_queue, hist, dispV,
                         active_first_token_seen, task>>
     ELSE /\ nutt < MaxUtter /\ MoreInput /\ request_seq < MaxSeq
          /\ nutt' = tok
          /\ last_submit_ms' = now
          /\ IF abt # 0 /\ ~TaskDone(abt) /\ d # "none"
             THEN /\ rl' = [pc |-> "interrupting", tok |-> tok, now_ms |-> now,
                            reason |-> d, back |-> (d = "pre_token"),
                            rid |-> active_request_id]
                  /\ Send(<<Asr(<<tok>>)>>)
                  /\ UNCHANGED <<mergeV, backend_queue, hist, dispV,
                                 active_first_token_seen, task>>
             ELSE LET c == IngestTail(MergeRec, backend_queue, request_seq, tok,
                                      now, now) IN
                  /\ SetMerge(c.M)
                  /\ DGet(c.q)
                  /\ request_seq' = c.seq
                  /\ hist' = AfterCommit([hist EXCEPT !.appended = @ + 1], c)
                  /\ Send(<<Asr(<<tok>>)>> \o c.evs)
                  /\ rl' = rl
  /\ UNCHANGED <<timeV, decL, ws_closed, bridgeV, pendV>>

\* interrupt_active after `await emit_backend_state("interrupting", ...)`: the
\* steal-back, active_backend_task.cancel(), and the payload of the warning
interrupt_active ==
  /\ rl.pc = "interrupting"
  /\ LET abt == active_backend_task
         steal == rl.back /\ active_request_text # <<>>
         M == IF steal
              THEN [MergeRec EXCEPT
                      !.started = IF merge_texts = <<>> THEN now ELSE @,
                      !.last = IF merge_texts = <<>> THEN now ELSE @,
                      !.texts = <<active_request_text>> \o @]
              ELSE MergeRec
         h == IF steal THEN [hist EXCEPT !.steals = Append(@, active_request_text)]
              ELSE hist
     IN
     IF abt = 0
     THEN \* None.cancel() raises AttributeError: `except Exception` of ws_client
          /\ Send(<<StateD("interrupting", rl.rid, rl.reason)>>)
          /\ SetMerge(M)
          /\ hist' = h
          /\ rl' = [Idle EXCEPT !.pc = "raised"]
          /\ UNCHANGED <<ws_closed, disp, task>>
     ELSE /\ Send(<<StateD("interrupting", rl.rid, rl.reason)>>)
          /\ SetMerge(M)
          /\ task' = IF TaskDone(abt)
                     THEN [task EXCEPT ![abt].stolen = @ \/ steal]
                     ELSE [task EXCEPT ![abt].cancel = TRUE, ![abt].icancel = TRUE,
                                       ![abt].stolen = @ \/ steal]
          /\ hist' = h
          /\ rl' = [rl EXCEPT !.pc = "warn", !.rid = active_request_id]
          /\ UNCHANGED <<ws_closed, disp>>
  /\ UNCHANGED <<timeV, decV, last_submit_ms, nutt, request_seq, backend_queue,
                 active_backend_task, active_request_id, active_request_text,
                 active_first_token_seen, bridgeV, pendV>>

\* `except Exception` of ws_client has sent its warning: the teardown
ws_client_except ==
  /\ rl.pc = "raised"
  /\ Send(<<Warn(0, "exception")>>)
  /\ Teardown(MergeRec)
  /\ UNCHANGED <<timeV, decV, last_submit_ms, nutt, request_seq, backend_queue,
                 active_backend_task, active_request_id, active_request_text,
                 active_first_token_seen, bridgeV, pendV, hist>>

\* the warning of interrupt_active is sent; ingest_final_candidate goes on
ingest_final_candidate ==
  /\ rl.pc = "warn" /\ request_seq < MaxSeq
  /\ LET c == IngestTail(MergeRec, backend_queue, request_seq, rl.tok, rl.now_ms,
                         now) IN
     /\ SetMerge(c.M)
     /\ DGet(c.q)
     /\ request_seq' = c.seq
     /\ hist' = AfterCommit([hist EXCEPT !.appended = @ + 1], c)
     /\ Send(<<Warn(rl.rid, rl.reason)>> \o c.evs)
  /\ rl' = Idle
  /\ UNCHANGED <<timeV, decV, ws_closed, last_submit_ms, nutt, bridgeV, pendV>>

\* the control event `flush` (no audio pending): commit_merged("flush"), `flushed`
flush_all ==
  /\ rl.pc = "idle"
  /\ merge_texts = <<>> \/ request_seq < MaxSeq
  /\ LET c == commit_merged(MergeRec, backend_queue, request_seq, "flush", now, 2) IN
     /\ SetMerge(c.M)
     /\ DGet(c.q)
     /\ request_seq' = c.seq
     /\ hist' = AfterCommit(hist, c)
     /\ Send(c.evs \o <<Status("flushed")>>)
  /\ UNCHANGED <<timeV, decL, ws_closed, rlV, bridgeV, pendV>>

\* the client disconnects while the loop waits in websocket.receive()
Disconnect ==
  /\ rl.pc = "idle"
  /\ Teardown(MergeRec)
  /\ Quiet
  /\ UNCHANGED <<timeV, decV, last_submit_ms, nutt, request_seq, backend_queue,
                 active_backend_task, active_request_id, active_request_text,
                 active_first_token_seen, bridgeV, pendV, hist>>

\* `await backend_dispatcher_task` of the teardown returns
Closed ==
  /\ rl.pc = "closing" /\ disp.pc = "done"
  /\ rl' = [rl EXCEPT !.pc = "closed"]
  /\ Quiet
  /\ UNCHANGED <<timeV, decV, ws_closed, last_submit_ms, nutt, mergeV, backend_queue,
                 dispV, active_first_token_seen, task, bridgeV, pendV, hist>>

\* time passes
Tick ==
  /\ now < StartMs + MaxTicks * TickMs
  /\ now' = now + TickMs
  /\ Quiet
  /\ UNCHANGED <<decV, ws_closed, rlV, mergeV, backend_queue, dispV,
                 active_first_token_seen, task, bridgeV, pendV, hist>>

Next ==
  \/ Tick
  \/ \E u \in Utterances : finalize_segment(u) /\ UNCHANGED au
  \/ interrupt_active
  \/ ws_client_except
  \/ ingest_final_candidate
  \/ flush_all /\ UNCHANGED au
  \/ Disconnect
  \/ Closed
  \/ \E t \in timers, k \in TimerSends : TimerFire(t, k)
  \/ DWake
  \/ DCancelled
  \/ \E r \in Rids : TThinking(r)
  \/ \E r \in Rids : TConn(r)
  \/ \E r \in Rids : TTimeout(r)
  \/ \E r \in Rids, m \in BackendMsgs \cup {Synthetic("disconnected")} : TRecv(r, m)
  \/ \E r \in Rids : TSend(r)
  \/ \E r \in Rids : TCancelled(r)
  \/ \E r \in Rids : AgenFinalize(r)
  \/ BConnect
  \/ BConnectFail
  \/ BDrop
  \/ BFinally

Spec == Init /\ [][Next]_vars

\* ------------------------------------------- the interrupt decision, alone
Lens == {1, INTERRUPT_MIN_CHARS - 1, INTERRUPT_MIN_CHARS, INTERRUPT_MIN_CHARS + 1}

InitDecide ==
  /\ InitSession
  /\ din \in [cls : Classes, seen : BOOLEAN, len : Lens, q : BOOLEAN,
              mode : Modes, pre : BOOLEAN]
  /\ dout = ""
  /\ snd = NoSend /\ rs = NoStream /\ au = NoAudio /\ stp = NoStop
  /\ maxsize = BACKEND_MAX_PENDING

\* the if/elif of ingest_final_candidate for the inputs din
Decide ==
  /\ dout = ""
  /\ dout' = InterruptDecision(din.cls, din.seen, din.len, din.q, din.mode, din.pre)
  /\ UNCHANGED <<now, ws_closed, rlV, mergeV, backend_queue, dispV,
                 active_first_token_seen, task, bridgeV, pendV, hist, out, din, snd, rs, au, stp,
                 maxsize>>

SpecDecide == InitDecide /\ [][Decide]_vars



\* ------------------------------- the receive loop and the merge timer, alone
\* The session with a finer clock and with ASR results of every kind that
\* should_submit tells apart; the requests it commits are taken by the
\* dispatcher and stay in flight.
FrontUtterances == [cls : Classes, len : {SUBMIT_MIN_TEXT_CHARS - 1, SUBMIT_MIN_TEXT_CHARS},
                    q : {FALSE}, speech : BOOLEAN]

\* time passes
Step ==
  /\ now < StartMs + MaxTicks * TickMs
  /\ now' = now + StepMs
  /\ Quiet
  /\ UNCHANGED <<decV, ws_closed, rlV, mergeV, backend_queue, dispV,
                 active_first_token_seen, task, bridgeV, pendV, hist>>

FrontNext ==
  \/ Step
  \/ \E u \in FrontUtterances : finalize_segment(u) /\ UNCHANGED au
  \/ interrupt_active
  \/ ingest_final_candidate
  \/ flush_all /\ UNCHANGED au
  \/ \E t \in timers, k \in TimerSends : TimerFire(t, k)

SpecFront == InitUp /\ [][FrontNext]_vars


\* --------------------------------------------------- request_stream, alone
\* The loop of request_stream with the time of its waits, the bridge being
\* connected: every wait_for(queue.get(), timeout=timeout_s) has the whole
\* timeout_s = BACKEND_REQ_TIMEOUT_S to itself.
TimeoutMs == BACKEND_REQ_TIMEOUT_S * 1000

RsOther == <<ws_closed, rlV, mergeV, backend_queue, dispV, active_first_token_seen,
             task, bridgeV, pendV, hist, out, din, dout, snd, au, stp, maxsize>>

\* run_backend_payload calls request_stream: the payload is sent, the first wait
RsCall ==
  /\ rs.pc = "idle"
  /\ rs' = [rs EXCEPT !.pc = "get", !.t0 = now, !.tw = now]
  /\ UNCHANGED <<now, RsOther>>

\* a message arrives before the wait runs out and is yielded; behind a final
\* message the loop ends, else the next wait_for begins
RsMessage(final) ==
  /\ rs.pc = "get" /\ now - rs.tw < TimeoutMs /\ rs.n < MaxMsgs
  /\ rs' = IF final THEN [rs EXCEPT !.pc = "final", !.n = @ + 1]
           ELSE [rs EXCEPT !.tw = now, !.n = @ + 1]
  /\ UNCHANGED <<now, RsOther>>

\* wait_for raises TimeoutError: warn and backend_state timeout
RsTimeout ==
  /\ rs.pc = "get" /\ now - rs.tw >= TimeoutMs
  /\ rs' = [rs EXCEPT !.pc = "timeout"]
  /\ UNCHANGED <<now, RsOther>>

StreamNext ==
  \/ RsCall
  \/ \E final \in BOOLEAN : RsMessage(final)
  \/ RsTimeout
  \/ Step

SpecStream == InitUp /\ [][StreamNext]_vars

\* ------------------------------------------------------- send_event, alone
\* s.waiters without caller c
RECURSIVE Without(_, _)
Without(w, c) == IF w = <<>> THEN <<>>
                 ELSE IF Head(w) = c THEN Without(Tail(w), c)
                 ELSE <<Head(w)>> \o Without(Tail(w), c)

\* (an acquire that takes a free lock while others wait for it)
LockFreeBarging(s) == ~s.locked

\* Lock.acquire() returns at once: not locked, and no waiter that is not cancelled
LockFree(s) == ~s.locked /\ s.waiters = <<>>

\* Lock.release(): unlocked, and the future of the first waiter is set
Release(s) ==
  LET w == s.waiters IN
  [s EXCEPT !.locked = FALSE,
            !.pc = IF w # <<>> /\ s.pc[Head(w)] = "wait"
                   THEN [@ EXCEPT ![Head(w)] = "woken"] ELSE @]

\* caller c calls send_event: it returns at once if ws_closed; else it takes
\* the lock and starts websocket.send_json, or waits in Lock.acquire()
SCall(c) ==
  /\ snd.pc[c] = "idle" /\ snd.ncalls < MaxCalls
  /\ LET n == snd.ncalls + 1 IN
     snd' = IF ws_closed THEN [snd EXCEPT !.ncalls = n]
            ELSE IF LockFree(snd)
            THEN [snd EXCEPT !.ncalls = n, !.call[c] = n, !.locked = TRUE,
                             !.pc[c] = "write"]
            ELSE [snd EXCEPT !.ncalls = n, !.call[c] = n, !.pc[c] = "wait",
                             !.waiters = Append(@, c)]
  /\ UNCHANGED <<now, ws_closed, rlV, mergeV, backend_queue, dispV,
                 active_first_token_seen, task, bridgeV, pendV, hist, out, din, dout, rs, au, stp,
                 maxsize>>

\* a caller whose future was set runs again: it leaves _waiters, holds the lock
\* and starts websocket.send_json
SResume(c) ==
  /\ snd.pc[c] = "woken"
  /\ snd' = [snd EXCEPT !.waiters = Without(@, c), !.locked = TRUE, !.pc[c] = "write"]
  /\ UNCHANGED <<now, ws_closed, rlV, mergeV, backend_queue, dispV,
                 active_first_token_seen, task, bridgeV, pendV, hist, out, din, dout, rs, au, stp,
                 maxsize>>

\* websocket.send_json returns, or raises on a closed socket; the lock is released
SWritten(c) ==
  /\ snd.pc[c] = "write"
  /\ snd' = Release([snd EXCEPT !.pc[c] = "idle",
                                !.wire = IF ws_closed THEN @ ELSE Append(@, snd.call[c])])
  /\ UNCHANGED <<now, ws_closed, rlV, mergeV, backend_queue, dispV,
                 active_first_token_seen, task, bridgeV, pendV, hist, out, din, dout, rs, au, stp,
                 maxsize>>

\* the calling task is cancelled inside send_event: a waiter leaves _waiters and,
\* the lock being free, sets the future of the next one; a sender releases the lock
SCancel(c) ==
  /\ snd.pc[c] \in {"wait", "woken", "write"}
  /\ LET left == [snd EXCEPT !.pc[c] = "idle", !.waiters = Without(@, c)] IN
     snd' = IF snd.pc[c] = "write" \/ ~snd.locked THEN Release(left) ELSE left
  /\ UNCHANGED <<now, ws_closed, rlV, mergeV, backend_queue, dispV,
                 active_first_token_seen, task, bridgeV, pendV, hist, out, din, dout, rs, au, stp,
                 maxsize>>

\* the client is gone: ws_closed is set
SClose ==
  /\ ~ws_closed
  /\ ws_closed' = TRUE
  /\ UNCHANGED <<now, rlV, mergeV, backend_queue, dispV, active_first_token_seen,
                 task, bridgeV, pendV, hist, out, decV>>

SendNext ==
  \/ \E c \in Callers : SCall(c)
  \/ \E c \in Callers : SResume(c)
  \/ \E c \in Callers : SWritten(c)
  \/ \E c \in Callers : SCancel(c)
  \/ SClose

SpecSend == InitUp /\ [][SendNext]_vars

\* ------------------------------------------------------ the audio path
VAD_CHUNK_SAMPLES   == 2
PRE_ROLL_SAMPLES    == 1
MAX_SEGMENT_SAMPLES == 5

\* ASR results of the audio path: one that is admitted, one that is filtered
AudioUtterances == {Utt("normal", 2, FALSE, TRUE), Utt("drop_filler", 1, FALSE, TRUE)}

AudioOther == <<timeV, decL, ws_closed, rlV, mergeV, backend_queue, dispV,
                active_first_token_seen, task, bridgeV, pendV, hist>>

\* (loops that take whole chunks only)
NextChunkWhole(a) ==
  IF a.pending >= VAD_CHUNK_SAMPLES THEN [n |-> VAD_CHUNK_SAMPLES, final |-> FALSE]
  ELSE [n |-> 0, final |-> FALSE]

\* the chunk the loops over `pending` take next: a whole chunk, or, in
\* flush_all, what is left (is_final); n = 0: none
NextChunk(a) ==
  IF a.pending >= VAD_CHUNK_SAMPLES THEN [n |-> VAD_CHUNK_SAMPLES, final |-> FALSE]
  ELSE IF a.pc = "flush" /\ a.pending > 0 THEN [n |-> a.pending, final |-> TRUE]
  ELSE [n |-> 0, final |-> FALSE]

\* (a segmenter that opens a segment with the chunk alone)
process_vad_chunk_no_preroll(a, n, has_begin, has_end) ==
  LET prior == a.history
      was   == a.in_segment
      seg1  == IF was THEN a.segment + n ELSE a.segment
      begun == has_begin /\ ~was
      seg2  == IF begun THEN n ELSE seg1
      in2   == was \/ begun
      fin   == in2 /\ (seg2 >= MAX_SEGMENT_SAMPLES \/ has_end)
  IN [history |-> Min(prior + n, PRE_ROLL_SAMPLES),
      segment |-> IF fin THEN 0 ELSE seg2,
      in_segment |-> in2 /\ ~fin,
      fin |-> fin]

\* process_vad_chunk for a chunk of n samples for which the VAD reports a
\* begin (has_begin) and an end (has_end), or neither: history, segment and
\* in_segment behind it, and whether it calls finalize_segment (fin)
process_vad_chunk(a, n, has_begin, has_end) ==
  LET prior == a.history
      was   == a.in_segment
      seg1  == IF was THEN a.segment + n ELSE a.segment
      begun == has_begin /\ ~was
      seg2  == IF begun THEN Min(prior, PRE_ROLL_SAMPLES) + n ELSE seg1
      in2   == was \/ begun
      fin   == in2 /\ (seg2 >= MAX_SEGMENT_SAMPLES \/ has_end)
  IN [history |-> Min(prior + n, PRE_ROLL_SAMPLES),
      segment |-> IF fin THEN 0 ELSE seg2,
      in_segment |-> in2 /\ ~fin,
      fin |-> fin]

\* au behind the next chunk
AfterChunk(a, has_begin, has_end) ==
  LET c == NextChunk(a)
      r == process_vad_chunk(a, c.n, has_begin, has_end)
  IN [a EXCEPT !.pending = @ - c.n, !.history = r.history, !.segment = r.segment,
               !.in_segment = r.in_segment, !.is_final = c.final]

\* websocket.receive() returns an audio message of n samples
ReceiveAudio(n) ==
  /\ rl.pc = "idle" /\ au.pc = "idle" /\ au.naud < MaxAudio
  /\ au' = [au EXCEPT !.pc = "audio", !.pending = @ + n, !.naud = @ + 1]
  /\ Quiet
  /\ UNCHANGED AudioOther

\* websocket.receive() returns the control event `flush`: flush_all begins
ReceiveFlush ==
  /\ rl.pc = "idle" /\ au.pc = "idle" /\ au.naud < MaxAudio
  /\ au' = [au EXCEPT !.pc = "flush", !.naud = @ + 1]
  /\ Quiet
  /\ UNCHANGED AudioOther

\* a chunk is processed and no segment is finalized, or the ASR finds no text
VadChunk(has_begin, has_end) ==
  /\ rl.pc = "idle" /\ au.pc \in {"audio", "flush"} /\ NextChunk(au).n > 0
  /\ au' = AfterChunk(au, has_begin, has_end)
  /\ Quiet
  /\ UNCHANGED AudioOther

\* a chunk is processed, its segment is finalized and the ASR returns u
VadChunkFinal(has_begin, has_end, u) ==
  /\ au.pc \in {"audio", "flush"} /\ NextChunk(au).n > 0
  /\ process_vad_chunk(au, NextChunk(au).n, has_begin, has_end).fin
  /\ au' = AfterChunk(au, has_begin, has_end)
  /\ finalize_segment(u)

\* no chunk is left: the loop receives again, or flush_all goes on
LoopEnd ==
  /\ rl.pc = "idle" /\ au.pc \in {"audio", "flush"} /\ NextChunk(au).n = 0
  /\ au' = [au EXCEPT !.pc = IF @ = "audio" THEN "idle" ELSE "seg"]
  /\ Quiet
  /\ UNCHANGED AudioOther

\* flush_all, `if in_segment and segment.size > 0`: no segment, or no text
FlushSegment ==
  /\ rl.pc = "idle" /\ au.pc = "seg"
  /\ au' = IF au.in_segment /\ au.segment > 0
           THEN [au EXCEPT !.pc = "tail", !.segment = 0, !.in_segment = FALSE]
           ELSE [au EXCEPT !.pc = "tail"]
  /\ Quiet
  /\ UNCHANGED AudioOther

\* flush_all finalizes the segment in progress and the ASR returns u
FlushSegmentFinal(u) ==
  /\ au.pc = "seg" /\ au.in_segment /\ au.segment > 0
  /\ au' = [au EXCEPT !.pc = "tail", !.segment = 0, !.in_segment = FALSE]
  /\ finalize_segment(u)

\* flush_all from `history = ...` on, and the `flushed` that follows it
FlushTail ==
  /\ au.pc = "tail"
  /\ au' = [au EXCEPT !.pc = "idle", !.history = 0]
  /\ flush_all

AudioNext ==
  \/ Step
  \/ \E n \in 1..MaxSamples : ReceiveAudio(n)
  \/ ReceiveFlush
  \/ \E b, e \in BOOLEAN : VadChunk(b, e)
  \/ \E b, e \in BOOLEAN, u \in AudioUtterances : VadChunkFinal(b, e, u)
  \/ LoopEnd
  \/ FlushSegment
  \/ \E u \in AudioUtterances : FlushSegmentFinal(u)
  \/ FlushTail
  \/ interrupt_active
  \/ ingest_final_candidate
  \/ \E t \in timers, k \in TimerSends : TimerFire(t, k)

SpecAudio == InitUp /\ [][AudioNext]_vars

\* ------------------------------------------------- the bridge and its frames
\* What ws.recv() can return in BackendBridge._run: a binary frame, text that
\* is not JSON, JSON that is not an object (msg.get raises), an object without
\* a request_id (or with an empty one), an object whose request_id is not
\* hashable (_pending_streams.get raises), and an object for request id rid.
Frames ==
       [kind : {"binary", "badjson", "nonobject", "noid", "badid"}, rid : {0},
        msg : {NoMsg}]
  \cup [kind : {"object"}, rid : Rids, msg : BackendMsgs]

\* (a runner that makes a queue for an id that has none)
DeliverAnyway(q, f) == [q EXCEPT ![f.rid] = Append(@, f.msg)]

\* queue = _pending_streams.get(request_id); if queue is not None: queue.put(msg)
Deliver(q, f) == IF f.rid \in pend THEN [q EXCEPT ![f.rid] = Append(@, f.msg)] ELSE q

\* one pass of the receive loop for frame f; an exception in it ends the
\* connection as a failed recv does
BFrame(f) ==
  /\ bpc = "up" /\ nbmsg < MaxMsgs /\ MoreInput
  /\ nbmsg' = nbmsg + 1
  /\ IF f.kind \in {"nonobject", "badid"}
     THEN /\ ndrops < MaxDrops
          /\ bpc' = "lost" /\ ndrops' = ndrops + 1
          /\ pendq' = pendq
     ELSE /\ pendq' = IF f.kind = "object" THEN Deliver(pendq, f) ELSE pendq
          /\ UNCHANGED <<bpc, ndrops>>
  /\ hist' = IF f.kind = "object" /\ f.rid \notin pend
             THEN [hist EXCEPT !.orphans = @ \cup {f.rid}] ELSE hist
  /\ Quiet
  /\ UNCHANGED <<timeV, decV, ws_closed, rlV, mergeV, backend_queue, dispV,
                 active_first_token_seen, task, pend, connected, ws>>

\* the bridge with the requests of one session, at one instant
BridgeNext ==
  \/ \E f \in Frames : BFrame(f)
  \/ BConnect
  \/ BConnectFail
  \/ BDrop
  \/ BFinally
  \/ \E u \in Utterances : finalize_segment(u) /\ UNCHANGED au
  \/ flush_all /\ UNCHANGED au
  \/ Disconnect
  \/ Closed
  \/ DWake
  \/ DCancelled
  \/ \E r \in Rids : TThinking(r)
  \/ \E r \in Rids : TConn(r)
  \/ \E r \in Rids : TTimeout(r)
  \/ \E r \in Rids, m \in BackendMsgs \cup {Synthetic("disconnected")} : TRecv(r, m)
  \/ \E r \in Rids : TSend(r)
  \/ \E r \in Rids : TCancelled(r)
  \/ \E r \in Rids : AgenFinalize(r)

SpecBridge == Init /\ [][BridgeNext]_vars

\* ------------------------------------------------------- stop() of the bridge
StopOther == <<timeV, din, dout, snd, rs, au, maxsize, ws_closed, rlV, mergeV, backend_queue,
               dispV, active_first_token_seen, task, ndrops, nbmsg, hist>>

\* the runner's `finally`
RunnerFinally ==
  /\ connected' = FALSE /\ ws' = 0
  /\ pendq' = [r \in Rids |-> IF r \in pend
                              THEN Append(pendq[r], Synthetic("disconnected"))
                              ELSE pendq[r]]
  /\ bpc' = "down"
  /\ UNCHANGED pend

\* stop() up to its first await: _stop, _connected.clear(), and _ws.close()
\* if there is a socket
StopCall ==
  /\ stp.pc = "idle"
  /\ stp' = [stp EXCEPT !.stop = TRUE, !.pc = IF ws # 0 THEN "close" ELSE "cancel"]
  /\ connected' = FALSE
  /\ Quiet
  /\ UNCHANGED <<StopOther, bpc, ws, pendV>>

\* _ws.close() returns: the connection is closed, a recv() on it raises
StopClosed ==
  /\ stp.pc = "close"
  /\ stp' = [stp EXCEPT !.pc = "cancel"]
  /\ bpc' = IF bpc = "up" THEN "lost" ELSE bpc
  /\ Quiet
  /\ UNCHANGED <<StopOther, connected, ws, pendV>>

\* the runner, asleep in `except` with _stop set, wakes: `finally`, and its
\* loop ends
RunnerEnds ==
  /\ stp.stop /\ stp.run = "live" /\ bpc \in {"lost", "failed"}
  /\ stp.pc \in {"close", "cancel"}
  /\ RunnerFinally
  /\ stp' = [stp EXCEPT !.run = "ended"]
  /\ Quiet
  /\ UNCHANGED StopOther

\* _runner.cancel() and `await self._runner`
StopCancel ==
  /\ stp.pc = "cancel"
  /\ stp' = [stp EXCEPT !.pc = "await"]
  /\ Quiet
  /\ UNCHANGED <<StopOther, bpc, connected, ws, pendV>>

\* the cancelled runner runs: CancelledError at its await, and `finally`
RunnerCancelled ==
  /\ stp.pc = "await" /\ stp.run = "live"
  /\ RunnerFinally
  /\ stp' = [stp EXCEPT !.run = "cancelled"]
  /\ Quiet
  /\ UNCHANGED StopOther

\* `await self._runner` is over.  It raises CancelledError if the runner ended
\* cancelled, which `except Exception` catches only where CancelledError is an
\* Exception (caught); else stop() raises.  Behind it: the `stopped` terminals
\* and _pending_streams.clear()
StopJoin(caught) ==
  /\ stp.pc = "await" /\ stp.run # "live"
  /\ IF stp.run = "cancelled" /\ ~caught
     THEN /\ stp' = [stp EXCEPT !.pc = "raised"]
          /\ UNCHANGED pendV
     ELSE /\ stp' = [stp EXCEPT !.pc = "done"]
          /\ pendq' = [r \in Rids |-> IF r \in pend
                                      THEN Append(pendq[r], Synthetic("stopped"))
                                      ELSE pendq[r]]
          /\ pend' = {}
  /\ Quiet
  /\ UNCHANGED <<StopOther, bpc, connected, ws>>

\* the bridge with stop(), and the requests of one session, at one instant
StopNext ==
  \/ StopCall
  \/ StopClosed
  \/ RunnerEnds
  \/ StopCancel
  \/ RunnerCancelled
  \/ \E caught \in BOOLEAN : StopJoin(caught)
  \/ ~stp.stop /\ BConnect
  \/ ~stp.stop /\ BConnectFail
  \/ stp.run = "live" /\ BDrop
  \/ ~stp.stop /\ BFinally
  \/ \E u \in Utterances : finalize_segment(u) /\ UNCHANGED au
  \/ flush_all /\ UNCHANGED au
  \/ DWake
  \/ \E r \in Rids : TThinking(r)
  \/ \E r \in Rids : TConn(r)
  \/ \E r \in Rids : TTimeout(r)
  \/ \E r \in Rids, m \in BackendMsgs \cup {Synthetic("disconnected")} : TRecv(r, m)
  \/ \E r \in Rids : TSend(r)
  \/ \E r \in Rids : AgenFinalize(r)

SpecStop == Init /\ [][StopNext]_vars

\* ------------------------------------------------ sends on a broken socket
\* utterances that are admitted and never interrupt
FailUtterances == {Utt("keep_short", 1, FALSE, TRUE)}

\* websocket.send_json begins to raise: the client is gone, ws_closed not yet set
SocketBreaks ==
  /\ ~snd.broken /\ ~ws_closed
  /\ snd' = [snd EXCEPT !.broken = TRUE]
  /\ Quiet
  /\ UNCHANGED <<timeV, din, dout, rs, au, stp, maxsize, ws_closed, rlV, mergeV, backend_queue,
                 dispV, active_first_token_seen, task, bridgeV, pendV, hist>>

\* a send_event of the request task raises.  For `thinking` the exception
\* leaves the task at once; in the loop body it is caught by `except
\* Exception`, whose own send_event raises as well; in an except clause it
\* leaves the task.  request_stream's finally waits for the generator to be
\* finalized.
TSendFails(r) ==
  /\ snd.broken /\ ~ws_closed /\ ~task[r].cancel
  /\ task[r].pc \in {"thinking"} \cup BodySends \cup HandlerSends
  /\ task' = [task EXCEPT ![r] = Finish(@, "raised")]
  /\ Quiet
  /\ UNCHANGED <<TaskOther, active_first_token_seen, pendV>>

SendsWork == ~snd.broken \/ ws_closed

FailNext ==
  \/ SocketBreaks
  \/ \E r \in Rids : TSendFails(r)
  \/ Tick
  \/ \E u \in FailUtterances : ~snd.broken /\ finalize_segment(u) /\ UNCHANGED au
  \/ ~snd.broken /\ flush_all /\ UNCHANGED au
  \/ Disconnect
  \/ Closed
  \/ DWake
  \/ DCancelled
  \/ \E r \in Rids : SendsWork /\ TThinking(r)
  \/ \E r \in Rids : TConn(r)
  \/ \E r \in Rids : TTimeout(r)
  \/ \E r \in Rids, m \in BackendMsgs \cup {Synthetic("disconnected")} : TRecv(r, m)
  \/ \E r \in Rids : SendsWork /\ TSend(r)
  \/ \E r \in Rids : TCancelled(r)
  \/ \E r \in Rids : AgenFinalize(r)
  \/ BConnect
  \/ BConnectFail
  \/ BDrop
  \/ BFinally

SpecFail == Init /\ [][FailNext]_vars

\* ------------------------------------------- requests that wait to connect
\* the bridge not connected at startup
InitDown == Init /\ bpc = "down"

\* The session and the bridge while no connection that was made is lost:
\* connection attempts may fail until the first one succeeds.
ConnectNext ==
  \/ Tick
  \/ \E u \in Utterances : finalize_segment(u) /\ UNCHANGED au
  \/ interrupt_active
  \/ ws_client_except
  \/ ingest_final_candidate
  \/ flush_all /\ UNCHANGED au
  \/ Disconnect
  \/ Closed
  \/ \E t \in timers, k \in TimerSends : TimerFire(t, k)
  \/ DWake
  \/ DCancelled
  \/ \E r \in Rids : TThinking(r)
  \/ \E r \in Rids : TConn(r)
  \/ \E r \in Rids : TTimeout(r)
  \/ \E r \in Rids, m \in BackendMsgs \cup {Synthetic("disconnected")} : TRecv(r, m)
  \/ \E r \in Rids : TSend(r)
  \/ \E r \in Rids : TCancelled(r)
  \/ \E r \in Rids : AgenFinalize(r)
  \/ BConnect
  \/ BConnectFail
  \/ BFinally

SpecConnect == InitDown /\ [][ConnectNext]_vars

\* --------------------------------------------------- merging, uninterrupted
\* The session and the bridge with utterances that are admitted and never
\* interrupt the request in flight.
MergeNext ==
  \/ Tick
  \/ \E u \in FailUtterances : finalize_segment(u) /\ UNCHANGED au
  \/ flush_all /\ UNCHANGED au
  \/ Disconnect
  \/ Closed
  \/ \E t \in timers, k \in TimerSends : TimerFire(t, k)
  \/ DWake
  \/ DCancelled
  \/ \E r \in Rids : TThinking(r)
  \/ \E r \in Rids : TConn(r)
  \/ \E r \in Rids : TTimeout(r)
  \/ \E r \in Rids, m \in BackendMsgs \cup {Synthetic("disconnected")} : TRecv(r, m)
  \/ \E r \in Rids : TSend(r)
  \/ \E r \in Rids : TCancelled(r)
  \/ \E r \in Rids : AgenFinalize(r)
  \/ BConnect
  \/ BConnectFail
  \/ BDrop
  \/ BFinally

SpecMerge == Init /\ [][MergeNext]_vars

\* ------------------------------------------------- a queue of two places
\* The session with BACKEND_MAX_PENDING as it is above or one more, so that
\* two requests can wait behind the one in flight; the bridge is connected
\* and stays so.
InitQueue == /\ InitSession /\ din = NoDecision /\ dout = "" /\ snd = NoSend
             /\ rs = NoStream /\ au = NoAudio /\ stp = NoStop
             /\ maxsize \in {BACKEND_MAX_PENDING, BACKEND_MAX_PENDING + 1}
             /\ bpc = "up"

QueueNext ==
  \/ Tick
  \/ \E u \in Utterances : finalize_segment(u) /\ UNCHANGED au
  \/ interrupt_active
  \/ ws_client_except
  \/ ingest_final_candidate
  \/ flush_all /\ UNCHANGED au
  \/ Disconnect
  \/ Closed
  \/ \E t \in timers, k \in TimerSends : TimerFire(t, k)
  \/ DWake
  \/ DCancelled
  \/ \E r \in Rids : TThinking(r)
  \/ \E r \in Rids : TConn(r)
  \/ \E r \in Rids : TTimeout(r)
  \/ \E r \in Rids, m \in BackendMsgs : TRecv(r, m)
  \/ \E r \in Rids : TSend(r)
  \/ \E r \in Rids : TCancelled(r)
  \/ \E r \in Rids : AgenFinalize(r)

SpecQueue == InitQueue /\ [][QueueNext]_vars

\* ------------------------------------------------------------- properties
Tokens(texts) == {texts[i] : i \in DOMAIN texts}
IsPrefix(a, b) == Len(a) <= Len(b) /\ SubSeq(b, 1, Len(a)) = a
\* the tokens waiting in the merge window or in the queue
Buffered ==
  Tokens(Join(merge_texts))
    \cup UNION {Tokens(backend_queue[i].text) : i \in DOMAIN backend_queue}
BusyFiltered(x) == x.e = "filtered" /\ x.reason = "backend_queue_busy_buffering"

\* C1: for every request the client is sent at most one terminal backend_state
\* (completed, failed, timeout, interrupted) and at most one backend_result,
\* whatever the backend sends and whenever timeouts and interruptions come.
C1_OneTerminalOneResult ==
  \A r \in Rids : task[r].ev.terms <= 1 /\ task[r].ev.results <= 1

\* C2 (as safety): while the session is open, a request whose `queued` was sent
\* and whose task has finished has been sent a terminal backend_state.
C2_FinishedHasTerminal ==
  \A r \in Rids :
    TaskDone(r) /\ task[r].ev.queued /\ ~ws_closed => task[r].ev.terms >= 1

\* C3 (as safety): while the session is open, the text of a request whose task
\* was cancelled is not lost: the client was sent a reply or a terminal state
\* for the request, or its text is again in the merge window or the queue.
C3_NoAdmittedLoss ==
  LET r == active_backend_task IN
  r # 0 /\ TaskDone(r) /\ task[r].res = "cancelled" /\ ~ws_closed
    => \/ task[r].ev.replied
       \/ task[r].ev.terms >= 1
       \/ Tokens(active_request_text) \subseteq Buffered

\* C4: at most one request task runs at any moment, and it is the one the
\* dispatcher awaits: the next request is taken, and its `thinking` sent, only
\* when the previous task has finished, its cancellation handler included.
C4_OneRunningTask ==
  /\ Cardinality(LiveTasks) <= 1
  /\ \A r \in LiveTasks : r = active_backend_task /\ disp.pc = "await"
  /\ \A r \in Rids : task[r].ev.thinking => r = active_backend_task

\* a request waits in the queue while the cancellation handler of the
\* interrupted task still runs
C4_Witness ==
  \E r \in Rids : /\ task[r].pc \in {"cResult", "cInterrupted"}
                  /\ task[r].icancel
                  /\ backend_queue # <<>>

\* C5: the text a pre-token interrupt has stolen back is at the front of the
\* merge window, hence first in the text of the next request that is committed.
C5_StolenTextFirst ==
  \A i \in DOMAIN hist.steals : IsPrefix(hist.steals[i], Join(merge_texts))

\* C6: after a commit that found the queue full, the merged text is in the
\* window and the merge timer is armed, and `filtered` with
\* backend_queue_busy_buffering is sent together with backend_state queue_busy.
C6_QueueFullDeferral ==
  /\ hist.deferred /\ ~ws_closed => merge_texts # <<>> /\ merge_timer_task # 0
  /\ (\E i \in DOMAIN out : BusyFiltered(out[i]))
       => \E j \in DOMAIN out : IsStage(out[j], "queue_busy")

\* C7 (as safety): while a deferred text waits in the window and the receive
\* loop is idle, a timer task is asleep that will commit it with no further
\* client input.
C7_DeferredCommitPending ==
  hist.deferred /\ ~ws_closed /\ rl.pc = "idle"
    => \E t \in timers : t.ver = merge_version

\* C8: a request task that an interruption cancelled has sent
\* backend_state interrupted by the time it has finished.
C8_InterruptedIsSent ==
  \A r \in Rids :
    TaskDone(r) /\ task[r].icancel /\ ~ws_closed => task[r].ev.interrupted

\* C9: the interrupt decision for an utterance arriving while a request is
\* inflight is: steal-back iff normal, no token seen and INTERRUPT_PRE_TOKEN;
\* otherwise interrupt without steal-back iff a token was seen, the class is
\* neither drop_filler nor keep_short, and the mode is always, or is not one of
\* off/none/never/0 and the text is long enough or a question; otherwise none.
C9_InterruptDecision ==
  dout # "" =>
    dout = IF din.cls = "normal" /\ ~din.seen /\ din.pre THEN "pre_token"
           ELSE IF /\ din.seen
                   /\ din.cls \notin {"drop_filler", "keep_short"}
                   /\ \/ din.mode = "always"
                      \/ /\ din.mode \notin {"off", "none", "never", "0"}
                         /\ (din.len >= INTERRUPT_MIN_CHARS \/ din.q)
                THEN "post_token"
           ELSE "none"

\* a short question interrupts after the first token in conditional mode
C9_Witness ==
  /\ dout = "post_token" /\ din.mode = "conditional"
  /\ din.q /\ din.len < INTERRUPT_MIN_CHARS

\* C10: every admitted utterance has been appended to the merge window, but
\* for the one the receive loop is still taking its interrupt decision for.
C10_AdmittedIsAppended ==
  hist.appended = nutt - (IF rl.pc \in {"interrupting", "warn"} THEN 1 ELSE 0)

\* what the queue registered for r has been handed, from the message its reader
\* took last: that message and the messages that wait
Handed(r) == <<task[r].msg>> \o pendq[r]

\* C11: the queue registered for a request is handed nothing after a terminal
\* message (a backend message with final set, or a synthetic terminal): a
\* message with final set is the last one, so there are never two terminals.
C11_TerminalIsLast ==
  \A r \in pend :
    \A i \in DOMAIN Handed(r) : Handed(r)[i].final => i = Len(Handed(r))

IsDisconnected(m) == m.type = "llm_error" /\ m.final /\ m.err = "disconnected"

\* the runner leaves a connection, or a connection attempt, that has failed
RunnerCleansUp == bpc \in {"lost", "failed"} /\ bpc' = "down"
\* the task of r has read the synthetic terminal and its sends complete
FailsDisconnected(r) ==
  /\ task[r].pc = "eWarn" /\ IsDisconnected(task[r].msg)
  /\ ~task[r].cancel /\ task'[r].pc # task[r].pc
\* the dispatcher goes on behind the finished task it awaited
DispatcherGoesOn ==
  /\ disp.pc = "await" /\ ~disp.cancel /\ TaskDone(active_backend_task)
  /\ disp'.pc # disp.pc \/ active_backend_task' # active_backend_task

\* C12: when the connection drops, the queue of every pending request is
\* handed the synthetic "backend bridge disconnected" terminal, and neither the
\* dispatcher nor a request task is cancelled; the task that reads the terminal
\* sends `warn` and backend_state failed and ends; the dispatcher then clears
\* the inflight state, or takes the next request if one is queued.
C12_DropFailsPending ==
  [][ /\ RunnerCleansUp =>
           /\ \A r \in pend :
                /\ r \in pend' /\ pendq'[r] # <<>>
                /\ IsDisconnected(pendq'[r][Len(pendq'[r])])
           /\ disp' = disp /\ task' = task
      /\ \A r \in Rids :
           FailsDisconnected(r) =>
             /\ out' = Visible(<<Warn(r, "backend error"),
                                 StateD("failed", r, "disconnected")>>)
             /\ TaskDone(r)'
      /\ DispatcherGoesOn =>
           IF backend_queue = <<>>
           THEN /\ active_backend_task' = 0 /\ active_request_id' = 0
                /\ disp'.pc = "get"
           ELSE /\ active_request_id' = Head(backend_queue).id
                /\ active_backend_task' = Head(backend_queue).id
                /\ task'[Head(backend_queue).id].pc = "thinking"
                /\ backend_queue' = Tail(backend_queue)
                /\ disp'.pc = "await"
    ]_vars

\* the request in flight has just been sent `failed` for the lost connection,
\* the session is open and the next request waits in the queue
C12_Witness ==
  /\ \E i \in DOMAIN out : IsStage(out[i], "failed") /\ out[i].reason = "disconnected"
  /\ active_backend_task # 0 /\ TaskDone(active_backend_task)
  /\ backend_queue # <<>> /\ ~disp.cancel

\* C13: a request issued after the connection was killed (no other failure
\* has happened) does not fail for the killed connection: its payload is not
\* sent on the dead socket, and it does not read a terminal of that connection.
C13_LaterRequestsSucceed ==
  \A r \in Rids :
    task[r].late /\ ndrops = 1
      => task[r].pc # "xWarn" /\ ~IsDisconnected(task[r].msg)

\* the events of the last step that belong to the lifecycle of a request
Lifecycle(x) == x.e \in {"backend_state", "backend_stream"} /\ x.rid \in Rids

\* `thinking` has been sent only for requests whose `queued` was sent
ThinkingAfterQueued == \A r \in Rids : task[r].ev.thinking => task[r].ev.queued
\* a request that has been sent its terminal state is sent nothing more
NothingAfterTerminal ==
  /\ \A r \in Rids : task[r].ev.terms <= 1
  /\ \A i \in DOMAIN out :
       Lifecycle(out[i]) /\ ~IsTerm(out[i]) => task[out[i].rid].ev.terms = 0

\* C14: the events sent for a request follow the order queued, thinking,
\* streaming, terminal state: `thinking` is not sent before `queued`, and no
\* backend_stream or backend_state is sent for a request behind its terminal
\* state.
C14_LifecycleOrder == ThinkingAfterQueued /\ NothingAfterTerminal

Senders == {c \in Callers : snd.pc[c] = "write"}

\* C15: the events of a session are sent one at a time and in the order of the
\* send_event calls: no two callers are in websocket.send_json at once, and
\* the socket is given the calls in the order in which they were made.
C15_SendOrder ==
  /\ Cardinality(Senders) <= 1
  /\ \A i, j \in DOMAIN snd.wire : i < j => snd.wire[i] < snd.wire[j]

\* one event is being sent while two later calls wait for the lock
C15_Witness ==
  /\ Senders # {} /\ Len(snd.waiters) = 2 /\ snd.wire # <<>>

\* the admission checks of utterance u other than the rate limit pass
PassesOtherChecks(u) ==
  /\ ~(FILTER_FILLER /\ u.cls = "drop_filler")
  /\ ~(u.cls # "keep_short" /\ u.len < SUBMIT_MIN_TEXT_CHARS)
  /\ ~(SUBMIT_REQUIRE_SPEECH /\ ~u.speech)
TooEarly == now - last_submit_ms < SUBMIT_MIN_INTERVAL_MS

\* C16: an utterance that passes the other admission checks less than
\* SUBMIT_MIN_INTERVAL_MS after the last admitted one is rejected with exactly
\* one `filtered` event, reason submit_interval_limited, and leaves
\* last_submit_ms as it is; an admitted utterance is not too early and sets it.
C16_RateLimit ==
  [][ \A u \in FrontUtterances :
        finalize_segment(u) =>
          /\ PassesOtherChecks(u) /\ TooEarly =>
               /\ out' = Visible(<<Asr(<<0>>),
                                   Filtered("submit_interval_limited", <<0>>)>>)
               /\ last_submit_ms' = last_submit_ms /\ nutt' = nutt
               /\ merge_texts' = merge_texts /\ request_seq' = request_seq
          /\ nutt' # nutt => ~TooEarly /\ last_submit_ms' = now
    ]_vars

\* an utterance has just been rejected 300 ms after the last admitted one
C16_Witness ==
  /\ \E i \in DOMAIN out : out[i].e = "filtered" /\ out[i].reason = "submit_interval_limited"
  /\ nutt >= 1 /\ now - last_submit_ms = 300

\* the reasons to reject, in the order of the specification, and when each applies
RejectOrder == <<"filler_text", "text_too_short", "not_speech_event",
                 "submit_interval_limited">>
Applies(k, u) ==
  CASE k = 1 -> FILTER_FILLER /\ u.cls = "drop_filler"
    [] k = 2 -> u.cls # "keep_short" /\ u.len < SUBMIT_MIN_TEXT_CHARS
    [] k = 3 -> SUBMIT_REQUIRE_SPEECH /\ ~u.speech
    [] k = 4 -> TooEarly
Applying(u) == {k \in DOMAIN RejectOrder : Applies(k, u)}
\* a `filtered` event that rejects an utterance
IsRejection(x) ==
  x.e = "filtered" /\ \E k \in DOMAIN RejectOrder : x.reason = RejectOrder[k]
FirstApplying(u) == CHOOSE k \in Applying(u) : \A j \in Applying(u) : k <= j

\* C17: admission is an ordered short-circuit: an utterance to which a reason
\* to reject applies is rejected with `filtered` and the first such reason, in
\* the order filler_text, text_too_short (not for keep_short), not_speech_event,
\* submit_interval_limited; an utterance to which none applies is admitted
\* and not rejected.
C17_AdmissionOrder ==
  [][ \A u \in FrontUtterances :
        finalize_segment(u) =>
          IF Applying(u) = {}
          THEN nutt' = nutt + 1 /\ \A i \in DOMAIN out' : ~IsRejection(out'[i])
          ELSE /\ nutt' = nutt
               /\ out' = Visible(<<Asr(<<0>>),
                                   Filtered(RejectOrder[FirstApplying(u)], <<0>>)>>)
    ]_vars

\* an utterance that is too short and also comes too early has been rejected
\* as too short
C17_Witness ==
  /\ \E i \in DOMAIN out : out[i].e = "filtered" /\ out[i].reason = "text_too_short"
  /\ nutt >= 1 /\ TooEarly

\* the last step rejected an utterance for the rate limit
RateLimitedNow ==
  \E i \in DOMAIN out : out[i].e = "filtered" /\ out[i].reason = "submit_interval_limited"

\* C18: with no request in flight, an admissible Speech utterance that comes
\* 300 ms after the first admitted one is admitted as well (and merged with it
\* into one request): it is not rejected.
C18_SecondUtteranceAdmitted ==
  ~ /\ RateLimitedNow
    /\ nutt = 1 /\ merge_texts = <<<<1>>>>
    /\ now - last_submit_ms = 300
    /\ active_backend_task = 0 /\ backend_queue = <<>>

\* Utterances i < j are admitted at least (j - i) * SUBMIT_MIN_INTERVAL_MS
\* apart (C16), so their admission times span more than FINAL_MERGE_MAX_MS if
\* that product does.  WithinWindow(text): no two utterances of the text do.
WithinWindow(text) ==
  \A i, j \in DOMAIN text :
    (text[j] - text[i]) * SUBMIT_MIN_INTERVAL_MS <= FINAL_MERGE_MAX_MS

\* C19: the admission times of the utterances that make up the text of a
\* committed request (in the queue or in flight) span at most
\* FINAL_MERGE_MAX_MS, also behind a queue-full restore or a steal-back.
C19_MergeSpan ==
  /\ \A k \in DOMAIN backend_queue : WithinWindow(backend_queue[k].text)
  /\ WithinWindow(active_request_text)

\* C20: a request that is still waiting for its terminal message
\* BACKEND_REQ_TIMEOUT_S after it was dispatched times out: its wait has run
\* out, whatever the backend has sent in the meantime.
C20_DeadlineCoversRequest ==
  rs.pc = "get" /\ now - rs.t0 >= TimeoutMs => now - rs.tw >= TimeoutMs

\* C21: a request whose wait for the bridge connection ran out, its payload
\* never sent, fails as every other bridge failure does (warn and
\* backend_state failed): it is not in the handler that reports `timeout`.
C21_NotReadyIsFailed ==
  \A r \in Rids : task[r].pc = "tWarn" => task[r].sent # 0

\* C22: a frame for a request id that has no entry in the pending map changes
\* no pending queue and no entry, and leaves the connection up and the runner
\* receiving, whether the id was never used, or its request has finished or
\* was cancelled.
Orphan(f) == f.kind = "object" /\ f.rid \notin pend
C22_OrphanDiscarded ==
  [][\A f \in Frames : BFrame(f) /\ Orphan(f) =>
        /\ pendq' = pendq /\ pend' = pend
        /\ bpc' = "up" /\ connected' /\ ws' = ws
        /\ task' = task]_vars
\* orphan frames have come, for a request that has ended and for an id never
\* used, and the connection is up with a request still pending on it
C22_Witness ==
  /\ bpc = "up" /\ connected
  /\ \E r \in hist.orphans : task[r].pc = "done" /\ task[r].res = "ok"
  /\ \E r \in hist.orphans : task[r].pc = "none"

\* C23: request ids are request_seq values: request_seq never decreases, every
\* id that enters the queue or becomes inflight is greater than every id
\* assigned before it, the id named by a `queue_busy` is consumed by it, and a
\* request never registers with the bridge under an id that is still pending.
QueueIds(q) == {q[i].id : i \in DOMAIN q}
Assigned == QueueIds(backend_queue) \cup ({active_request_id} \ {0})
C23_IdsUnique ==
  [][ /\ request_seq' >= request_seq
      /\ \A id \in (QueueIds(backend_queue') \cup {active_request_id'}) \ (Assigned \cup {0}) :
           id = request_seq' /\ id > request_seq
      /\ \A i \in DOMAIN out' :
           IsStage(out'[i], "queue_busy") =>
             out'[i].rid = request_seq' /\ request_seq' > request_seq
      /\ \A r \in Rids : TThinking(r) => r \notin pend
      /\ \A i, j \in DOMAIN backend_queue' :
           i < j => backend_queue'[i].id < backend_queue'[j].id
      /\ \A id \in QueueIds(backend_queue') :
           active_request_id' < id /\ \A r \in pend' : r < id ]_vars
\* two requests are live under different ids, and a commit deferred with
\* queue_busy has consumed a third
C23_Witness ==
  /\ active_request_id = 1 /\ 1 \in pend
  /\ QueueIds(backend_queue) = {2} /\ request_seq = 3 /\ hist.deferred

\* C24: whatever the session is waiting in, the merge window is empty exactly
\* when merge_started_ms and merge_last_ms are both 0.
C24_WindowStamps ==
  merge_texts = <<>> <=> (merge_started_ms = 0 /\ merge_last_ms = 0)
\* the window holds text stolen back from an interrupted request and text that
\* a full queue made commit_merged put back, and both stamps are set
C24_Witness ==
  /\ hist.steals # <<>> /\ hist.deferred
  /\ merge_texts # <<>> /\ merge_started_ms > 0 /\ merge_last_ms > 0

\* C25: once the client has disconnected, no merge timer is armed and none
\* commits, the dispatcher is cancelled or has ended, every request task still
\* running has its cancellation pending or is in its CancelledError handler,
\* and the teardown returns only when no task runs; a cancelled task that waits
\* in request_stream leaves the pending map as it is cancelled; nothing is
\* sent to the client any more; and the disconnect itself leaves the bridge
\* and the pending map as they are.
ClientGone == ws_closed /\ rl.pc \in {"closing", "closed"}
C26_FlushCommits ==
  [][FlushTail /\ merge_texts # <<>> =>
       /\ merge_texts' = <<>>
       /\ request_seq' \in QueueIds(backend_queue') \cup {active_request_id'}]_vars

\* C26: in flush_all whole chunks are processed with is_final false and what
\* is left with is_final true; when `flushed` is sent, pending, history and
\* segment are empty and in_segment is false; a window with text was
\* committed in that step with reason flush, `queued` sent before `flushed`
\* and no timer left, or, the queue being full, put back as one text with
\* `filtered` and `queue_busy` sent before `flushed` and the timer armed;
\* an empty window queues nothing.
C26_Flush ==
  [][ /\ au.pc = "flush" /\ au'.pending # au.pending =>
           /\ au'.is_final = (au.pending < VAD_CHUNK_SAMPLES)
           /\ au'.is_final => au'.pending = 0
      /\ FlushTail =>
           /\ au.pending = 0 /\ au.segment = 0 /\ ~au.in_segment
           /\ au'.pending = 0 /\ au'.history = 0 /\ au'.segment = 0
           /\ ~au'.in_segment
           /\ out'[Len(out')] = Status("flushed")
           /\ IF merge_texts = <<>>
              THEN /\ out' = <<Status("flushed")>>
                   /\ UNCHANGED <<backend_queue, request_seq, active_request_id,
                                  merge_texts>>
              ELSE IF QueueFull(backend_queue)
              THEN /\ out' = <<Filtered("backend_queue_busy_buffering", Join(merge_texts)),
                               StateD("queue_busy", request_seq',
                                      "backend_queue_busy_buffering"),
                               Status("flushed")>>
                   /\ merge_texts' = <<Join(merge_texts)>>
                   /\ merge_timer_task' # 0
                   /\ UNCHANGED <<backend_queue, active_request_id>>
              ELSE /\ out' = <<Queued(request_seq', Join(merge_texts), "flush",
                                      Len(merge_texts)),
                               Status("flushed")>>
                   /\ merge_texts' = <<>> /\ merge_timer_task' = 0
                   /\ request_seq' \in QueueIds(backend_queue') \cup {active_request_id'}
    ]_vars
\* a flush has processed a last partial chunk and found the queue full
C26_Witness ==
  /\ au.pc = "idle" /\ au.is_final /\ au.pending = 0 /\ au.history = 0
  /\ Len(out) = 3 /\ out[3] = Status("flushed") /\ IsStage(out[2], "queue_busy")
  /\ merge_texts # <<>> /\ merge_timer_task # 0

\* C27: once stop() has been called, no connection having failed before, no
\* request is handed the terminal of a lost connection, and stop() does not
\* raise.
C27_StopDelivers ==
  stp.stop /\ ndrops = 0 =>
    /\ \A r \in Rids : ~IsDisconnected(task[r].msg)
    /\ stp.pc # "raised"

\* C28 as stated: a request whose processing ends with an exception has had a
\* `warn` sent for it.
C28_WarnOnException ==
  [][\A r \in Rids :
       ~TaskDone(r) /\ TaskDone(r)' /\ task'[r].res = "raised" =>
         \E i \in DOMAIN out' : out'[i].e = "warn" /\ out'[i].rid = r]_vars

\* C28: a request whose payload could not be sent on the bridge gets `warn`
\* and backend_state failed, if the client's socket takes them, and its task
\* ends; the dispatcher ends only when
\* it is cancelled; and behind a task that has ended, by an exception or
\* not, it clears the inflight state, or takes the next request if one is
\* queued.
C28_DispatcherSurvives ==
  [][ /\ \A r \in Rids :
           task[r].pc = "xWarn" /\ TSend(r) =>
             /\ Len(out') = 2 /\ out'[1].e = "warn" /\ out'[1].rid = r
             /\ IsStage(out'[2], "failed") /\ out'[2].rid = r
             /\ TaskDone(r)'
      /\ disp'.pc = "done" => disp.pc = "done" \/ disp.cancel
      /\ DispatcherGoesOn =>
           IF backend_queue = <<>>
           THEN /\ active_backend_task' = 0 /\ active_request_id' = 0
                /\ active_request_text' = <<>> /\ ~active_first_token_seen'
                /\ disp'.pc = "get"
           ELSE /\ active_request_id' = Head(backend_queue).id
                /\ active_backend_task' = Head(backend_queue).id
                /\ task'[Head(backend_queue).id].pc = "thinking"
                /\ backend_queue' = Tail(backend_queue)
                /\ disp'.pc = "await" ]_vars
\* a send of the inflight request has raised on the broken socket and its
\* task has ended with the exception, the next request waits in the queue
C28_Witness ==
  /\ snd.broken /\ ~ws_closed /\ ~disp.cancel /\ disp.pc = "await"
  /\ active_backend_task # 0
  /\ task[active_backend_task].pc = "done"
  /\ task[active_backend_task].res = "raised"
  /\ task[active_backend_task].ev.thinking
  /\ backend_queue # <<>>

\* C29: when interrupt_active goes on behind its `interrupting`, the inflight
\* request is still the one that event named, so that the cancel, the
\* steal-back and the `warn` are for it, and the interruption does not raise.
C29_InterruptsNamedRequest ==
  [][interrupt_active =>
       /\ active_backend_task = rl.rid /\ active_request_id = rl.rid
       /\ rl'.pc # "raised"]_vars

\* C30: no request has had its text put back in the merge window and has
\* also had reply text sent to the client (a backend_stream or a
\* backend_result).
C30_StealOrReply ==
  \A r \in Rids : ~(task[r].stolen /\ task[r].ev.replied)

\* C31: while no connection that was made has been lost, a request whose
\* payload has been sent is handed the backend's messages only: neither the
\* message it reads nor its queue holds a "backend bridge disconnected"
\* terminal.
C31_OwnResponses ==
  \A r \in Rids :
    task[r].sent # 0 /\ bpc = "up" =>
      /\ ~IsDisconnected(task[r].msg)
      /\ \A i \in DOMAIN pendq[r] : ~IsDisconnected(pendq[r][i])

\* C32: while the session is open and the receive loop is between two
\* messages, text in the merge window has a timer task asleep for it that
\* will attempt the commit: one whose version is the current merge_version.
C32_TimerArmed ==
  merge_texts # <<>> /\ rl.pc = "idle" /\ ~ws_closed
    => /\ merge_timer_task = merge_version
       /\ \E t \in timers : t.ver = merge_version

\* C33: at most one merge timer is pending, and it is the task that
\* merge_timer_task names; a timer is created with the incremented
\* merge_version as its version; every commit attempt (it takes a request
\* id) increments merge_version; a timer that wakes is pending no more, and
\* it attempts a commit only if its version is the current merge_version; a
\* timer whose version is stale changes neither the window, the queue nor
\* request_seq.
C33_StaleTimersNeverCommit ==
  [][ /\ Cardinality(timers') <= 1
      /\ \A t \in timers' : t.ver = merge_timer_task' /\ t.ver <= merge_version'
      /\ \A t \in timers' \ timers :
           t.ver = merge_version' /\ merge_version' > merge_version
      /\ request_seq' # request_seq => merge_version' > merge_version
      /\ \A t \in timers, k \in TimerSends :
           TimerFire(t, k) =>
             /\ t \notin timers'
             /\ request_seq' # request_seq => t.ver = merge_version
             /\ t.ver # merge_version =>
                  UNCHANGED <<merge_texts, merge_version, backend_queue, request_seq>>
    ]_vars
\* a timer has attempted its commit, found the queue full, put the text back
\* and armed the next timer
C33_Witness ==
  /\ Len(out) = 2 /\ BusyFiltered(out[1]) /\ IsStage(out[2], "queue_busy")
  /\ Cardinality(timers) = 1 /\ merge_timer_task = merge_version
  /\ merge_texts # <<>> /\ hist.deferred

\* C34: a request that has left request_stream has no entry in the pending
\* map: neither one whose task has ended (its terminal message consumed, or
\* by an exception or a cancellation) nor one whose task is in an except
\* clause of run_backend_payload.
C34_EntryGone ==
  \A r \in Rids : TaskDone(r) \/ task[r].pc \in HandlerSends => r \notin pend

\* C35: whenever _connected is set, the runner is in its receive loop on the
\* connection that _ws names: a payload can be sent on _ws.
C35_ConnectedIsLive ==
  connected => bpc = "up" /\ ws # 0

\* the texts of the requests that are inflight or queued, in dispatch order
LiveTexts ==
  (IF active_request_text = <<>> THEN <<>> ELSE <<active_request_text>>)
    \o [i \in DOMAIN backend_queue |-> backend_queue[i].text]
\* the utterances in those requests and behind them in the merge window
Pipeline == Join(LiveTexts \o merge_texts)
Ascending(s) == \A i \in 1..(Len(s) - 1) : s[i + 1] = s[i] + 1

\* C36: with no interruption, the utterances in the live requests and behind
\* them in the merge window are, in this order, the last admitted ones, each
\* once and in admission order; a step either leaves the window's utterances
\* as they are but for the one it admits, or makes one request of exactly the
\* window's utterances and empties the window; and the requests made leave
\* only from the front, when the dispatcher is done with them.  So no
\* utterance is in two requests, twice in one, lost, or out of order.
C36_ExactlyOnce ==
  [][ LET W == merge_texts \o (IF nutt' > nutt THEN <<<<nutt'>>>> ELSE <<>>)
      IN /\ Ascending(Pipeline')
         /\ Pipeline' # <<>> => Pipeline'[Len(Pipeline')] = nutt'
         /\ \/ /\ Join(merge_texts') = Join(W)
               /\ \/ LiveTexts' = LiveTexts
                  \/ LiveTexts # <<>> /\ LiveTexts' = Tail(LiveTexts)
            \/ /\ W # <<>> /\ merge_texts' = <<>>
               /\ LiveTexts' = Append(LiveTexts, Join(W))
               /\ request_seq' = request_seq + 1
    ]_vars
\* one request is inflight, the next is queued, and two later utterances,
\* whose commit found the queue full, are back in the window as one text
C36_Witness ==
  /\ hist.deferred /\ merge_texts = <<<<3, 4>>>>
  /\ active_request_text = <<1>> /\ LiveTexts = <<<<1>>, <<2>>>>

\* C37: backend_queue never holds more than its maxsize, and a request is put
\* only where there is room (put_nowait does not raise); the queue changes
\* only by a commit that appends the request with the fresh id, or by the
\* dispatcher, between two requests, taking its head, which becomes the
\* inflight request; a request becomes inflight only as the head of the
\* queue, or, the queue being empty, as the one just committed; and
\* interrupt_active leaves the queue and every task but the inflight one as
\* they are.
C37_QueueFifo ==
  [][ LET q == backend_queue
          n == Len(backend_queue')
      IN /\ n <= maxsize
         /\ \/ backend_queue' = q
            \/ /\ Len(q) < maxsize /\ n = Len(q) + 1
               /\ SubSeq(backend_queue', 1, n - 1) = q
               /\ backend_queue'[n].id = request_seq'
               /\ request_seq' = request_seq + 1
               /\ active_request_id' = active_request_id
            \/ /\ q # <<>> /\ backend_queue' = Tail(q)
               /\ DWake
               /\ active_request_id' = Head(q).id
               /\ active_request_text' = Head(q).text
               /\ active_backend_task' = Head(q).id
               /\ task'[Head(q).id].pc = "thinking"
         /\ active_request_id' \notin {active_request_id, 0} =>
              IF q # <<>> THEN active_request_id' = Head(q).id
              ELSE active_request_id' = request_seq' /\ request_seq' = request_seq + 1
         /\ interrupt_active =>
              /\ backend_queue' = q
              /\ active_backend_task' = active_backend_task
              /\ \A r \in Rids : r # active_backend_task => task'[r] = task[r]
    ]_vars
\* the inflight request has been cancelled by an interruption and is in its
\* CancelledError handler, and two requests wait in the queue, which is full
C37_Witness ==
  /\ maxsize = 2 /\ QueueFull(backend_queue)
  /\ backend_queue[1].id = 2 /\ backend_queue[2].id = 3
  /\ active_backend_task = 1 /\ task[1].icancel
  /\ task[1].pc \in {"cResult", "cInterrupted"}

\* C38: the runner's step for a frame that is binary, is not JSON, is JSON
\* but not an object, or is an object with no request_id leaves the runner in
\* its receive loop on the same connection, _connected set, and every pending
\* queue and the pending map as they are.
C38_MalformedIgnored ==
  [][\A f \in Frames :
       BFrame(f) /\ f.kind \in {"binary", "badjson", "nonobject", "noid"} =>
         /\ bpc' = "up" /\ connected' /\ ws' = ws
         /\ pendq' = pendq /\ pend' = pend]_vars

IsAsr(x) == x.e = "asr"
\* the step processes one chunk for which the VAD reports begin b and end e
ChunkStep(b, e) ==
  VadChunk(b, e) \/ \E u \in AudioUtterances : VadChunkFinal(b, e, u)

\* C39: between chunks in_segment is false exactly when the segment is
\* empty.  For a chunk of n samples: a begin while not in a segment makes the
\* segment the pre-roll (the last PRE_ROLL_SAMPLES of the history before the
\* chunk) plus the chunk; while in a segment the chunk is appended; if then
\* the segment is open and the VAD reports an end, or the segment has
\* MAX_SEGMENT_SAMPLES or more, it is finalized (at most one ASR result is
\* sent), the segment is empty and in_segment false; else nothing is
\* finalized and in_segment stays or becomes true.
C39_Segmenter ==
  /\ [](au.in_segment <=> au.segment > 0)
  /\ [][\A b, e \in BOOLEAN :
          ChunkStep(b, e) =>
            LET n      == au.pending - au'.pending
                opened == b /\ ~au.in_segment
                grown  == IF au.in_segment THEN au.segment + n
                          ELSE IF opened THEN Min(au.history, PRE_ROLL_SAMPLES) + n
                          ELSE 0
                ends   == /\ au.in_segment \/ opened
                          /\ e \/ grown >= MAX_SEGMENT_SAMPLES
            IN /\ n > 0
               /\ IF ends
                  THEN /\ au'.segment = 0 /\ ~au'.in_segment
                       /\ Count(out', IsAsr) <= 1
                  ELSE /\ au'.segment = grown
                       /\ au'.in_segment = (au.in_segment \/ opened)
                       /\ Count(out', IsAsr) = 0 /\ nutt' = nutt
       ]_vars
\* a segment was finalized and its text admitted, and the next one has been
\* opened with the pre-roll before its first chunk
C39_Witness ==
  /\ nutt >= 1 /\ au.in_segment
  /\ au.segment = PRE_ROLL_SAMPLES + VAD_CHUNK_SAMPLES

\* C40: a chunk for which the VAD reports the end of the segment in progress
\* and the begin of the next one leaves a segment open that holds audio of
\* the chunk.
C40_BeginOpensNext ==
  [][ChunkStep(TRUE, TRUE) /\ au.in_segment =>
       au'.in_segment /\ au'.segment > 0]_vars

====
